---- MODULE Spec2Model ----
(***************************************************************************)
(* A model of the share-here notes application: the user directory, the    *)
(* session codec (src/unnamed/part_006, the @/lib/auth module), the        *)
(* per-user storage adapter (src/lib/storage.ts) and the /api/content and  *)
(* /api/auth/login route handlers.                                         *)
(*                                                                         *)
(* Strings of the program are sequences of one-character strings; long     *)
(* note texts are kept run-length encoded (a sequence of <<char, count>>   *)
(* runs), which represents the same string.                                *)
(***************************************************************************)
EXTENDS Integers, Sequences, FiniteSets, TLC

VARIABLES
    now,            \* the wall clock, in milliseconds (Date.now())
    kv,             \* the remote Vercel KV store: storage key -> entries, or absent
    memoryStorage,  \* the in-process Map of src/lib/storage.ts:23
    client,         \* per browser: the token and user kept after a login
    resp,           \* the response of the last request handled, with its request
    disk,           \* the file system under data/: the paths and the files' contents
    tasks,          \* the requests of the file-backed content route, each at its step
    pending         \* the calls of the storage adapter under way, each at its await

vars == <<now, kv, memoryStorage, client, resp, disk, tasks, pending>>

\* the state of the file-backed variant of the content route, and the rest
fileVars == <<disk, tasks>>
appVars == <<now, kv, memoryStorage, client, resp, pending>>

-----------------------------------------------------------------------------
(* Bounds of the model.                                                    *)

\* how many single milliseconds the clock may advance
MaxMs == 1
\* how many times the clock may jump by nearly a whole session duration
MaxJumps == 2
\* how many entries one user's collection may hold
MaxEntries == 2
\* how many files the form of a browser may hold
MaxFormFiles == 6
\* how many requests the file-backed variants handle
MaxTasks == 2

-----------------------------------------------------------------------------
(* JavaScript values.                                                      *)

Undefined == [t |-> "undefined"]
Null == [t |-> "null"]
JStr(s) == [t |-> "string", v |-> s]
JNum(n) == [t |-> "number", v |-> n]
JBool(b) == [t |-> "boolean", v |-> b]
JObj(f) == [t |-> "object", v |-> f]

\* obj.key of JavaScript: undefined when the property is missing, and
\* undefined for the properties of a primitive
Prop(val, key) ==
    IF val.t = "object" /\ key \in DOMAIN val.v THEN val.v[key] ELSE Undefined

\* !v of JavaScript
Falsy(val) ==
    \/ val.t \in {"undefined", "null"}
    \/ val.t = "string" /\ Len(val.v) = 0
    \/ val.t = "number" /\ val.v = 0
    \/ val.t = "boolean" /\ ~val.v

-----------------------------------------------------------------------------
(* Characters and their codes.                                             *)

\* the printable ASCII characters, from code 32 to code 126 (code 96 is
\* spelled out: the lexer does not take it inside a string)
AsciiChars ==
    << " ", "!", "\"", "#", "$", "%", "&", "'", "(", ")", "*", "+", ",", "-", ".", "/",
       "0", "1", "2", "3", "4", "5", "6", "7", "8", "9", ":", ";", "<", "=", ">", "?",
       "@", "A", "B", "C", "D", "E", "F", "G", "H", "I", "J", "K", "L", "M", "N", "O",
       "P", "Q", "R", "S", "T", "U", "V", "W", "X", "Y", "Z", "[", "\\", "]", "^", "_",
       "<grave>", "a", "b", "c", "d", "e", "f", "g", "h", "i", "j", "k", "l", "m", "n", "o",
       "p", "q", "r", "s", "t", "u", "v", "w", "x", "y", "z", "{", "|", "}", "~" >>

\* what a byte outside the ASCII range decodes to (U+FFFD)
ReplacementChar == "<?>"

CharCode == [c \in {AsciiChars[i] : i \in 1..Len(AsciiChars)} |->
                31 + CHOOSE i \in 1..Len(AsciiChars) : AsciiChars[i] = c]

\* a sequence given as a function, enumerated once (the same sequence)
Listed(f) == SubSeq(f, 1, Len(f))

\* Buffer.from(string): the UTF-8 bytes of a string of ASCII characters
Utf8Encode(s) == Listed([i \in 1..Len(s) |-> CharCode[s[i]]])

\* buffer.toString(): the characters of a byte sequence
Utf8Decode(bytes) ==
    Listed([i \in 1..Len(bytes) |->
              IF bytes[i] >= 32 /\ bytes[i] <= 126 THEN AsciiChars[bytes[i] - 31]
              ELSE ReplacementChar])

Digits == <<"0", "1", "2", "3", "4", "5", "6", "7", "8", "9">>
IsDigit(c) == \E d \in 1..10 : Digits[d] = c
DigitValue(c) == (CHOOSE d \in 1..10 : Digits[d] = c) - 1

\* Number.prototype.toString() of a non-negative integer
RECURSIVE DecimalString(_)
DecimalString(n) ==
    IF n < 10 THEN <<Digits[n + 1]>>
    ELSE DecimalString(n \div 10) \o <<Digits[(n % 10) + 1]>>

\* String.prototype.toLowerCase() on ASCII
LowerChar(c) ==
    IF c \in DOMAIN CharCode /\ CharCode[c] >= 65 /\ CharCode[c] <= 90
    THEN AsciiChars[CharCode[c] + 32 - 31] ELSE c
toLowerCase(s) == Listed([i \in 1..Len(s) |-> LowerChar(s[i])])

\* String.prototype.trim() on a character sequence
RECURSIVE TrimStart(_)
TrimStart(s) == IF Len(s) > 0 /\ s[1] = " " THEN TrimStart(Tail(s)) ELSE s
RECURSIVE TrimEnd(_)
TrimEnd(s) ==
    IF Len(s) > 0 /\ s[Len(s)] = " " THEN TrimEnd(SubSeq(s, 1, Len(s) - 1)) ELSE s
trim(s) == TrimEnd(TrimStart(s))

-----------------------------------------------------------------------------
(* base64, as Buffer implements it.                                        *)

B64Alphabet ==
    << "A", "B", "C", "D", "E", "F", "G", "H", "I", "J", "K", "L", "M", "N", "O", "P",
       "Q", "R", "S", "T", "U", "V", "W", "X", "Y", "Z", "a", "b", "c", "d", "e", "f",
       "g", "h", "i", "j", "k", "l", "m", "n", "o", "p", "q", "r", "s", "t", "u", "v",
       "w", "x", "y", "z", "0", "1", "2", "3", "4", "5", "6", "7", "8", "9", "+", "/" >>

B64Index == [c \in {B64Alphabet[i] : i \in 1..64} |->
                (CHOOSE i \in 1..64 : B64Alphabet[i] = c) - 1]

\* the four characters of one group of three bytes
B64Group(b1, b2, b3) ==
    LET v == b1 * 65536 + b2 * 256 + b3
    IN  << B64Alphabet[(v \div 262144) + 1], B64Alphabet[((v \div 4096) % 64) + 1],
           B64Alphabet[((v \div 64) % 64) + 1], B64Alphabet[(v % 64) + 1] >>

\* buffer.toString("base64"): groups of three bytes, the last one padded with "="
Base64Encode(bytes) ==
    LET n == Len(bytes)
        full == n \div 3
        body == Listed([k \in 1..(4 * full) |->
                    B64Group(bytes[3 * ((k - 1) \div 4) + 1],
                             bytes[3 * ((k - 1) \div 4) + 2],
                             bytes[3 * ((k - 1) \div 4) + 3])[((k - 1) % 4) + 1]])
        rest == IF n % 3 = 1
                THEN LET g == B64Group(bytes[n], 0, 0) IN <<g[1], g[2], "=", "=">>
                ELSE IF n % 3 = 2
                THEN LET g == B64Group(bytes[n - 1], bytes[n], 0) IN <<g[1], g[2], g[3], "=">>
                ELSE <<>>
    IN  body \o rest

\* Buffer.from(text, "base64"): decoding stops at the first "=", characters
\* outside the alphabet are skipped, and it never throws
Base64Decode(text) ==
    LET stop == IF \E i \in 1..Len(text) : text[i] = "="
                THEN (CHOOSE i \in 1..Len(text) :
                        text[i] = "=" /\ \A j \in 1..(i - 1) : text[j] # "=") - 1
                ELSE Len(text)
        six == SelectSeq(SubSeq(text, 1, stop), LAMBDA c : c \in DOMAIN B64Index)
        m == Len(six)
        val(k) == B64Index[six[k]]
        nbytes == 3 * (m \div 4) + (IF m % 4 = 2 THEN 1 ELSE IF m % 4 = 3 THEN 2 ELSE 0)
        byte(i) ==
            LET g == 4 * ((i - 1) \div 3)
                r == (i - 1) % 3
            IN  IF r = 0 THEN val(g + 1) * 4 + (val(g + 2) \div 16)
                ELSE IF r = 1 THEN (val(g + 2) % 16) * 16 + (val(g + 3) \div 4)
                ELSE (val(g + 3) % 4) * 64 + val(g + 4)
    IN  Listed([i \in 1..nbytes |-> byte(i)])

-----------------------------------------------------------------------------
(* JSON.                                                                   *)

Quote == "\""
Backslash == "\\"

\* a string literal: quotes and backslashes are escaped
RECURSIVE JSONEscape(_)
JSONEscape(s) ==
    IF Len(s) = 0 THEN <<>>
    ELSE (IF s[1] = Quote \/ s[1] = Backslash THEN <<Backslash, s[1]>> ELSE <<s[1]>>)
         \o JSONEscape(Tail(s))
JSONQuote(s) == <<Quote>> \o JSONEscape(s) \o <<Quote>>

JSONValueText(val) ==
    IF val.t = "string" THEN JSONQuote(val.v)
    ELSE IF val.t = "number" THEN DecimalString(val.v)
    ELSE IF val.t = "boolean" THEN (IF val.v THEN <<"t", "r", "u", "e">>
                                    ELSE <<"f", "a", "l", "s", "e">>)
    ELSE <<"n", "u", "l", "l">>

\* JSON.stringify of an object given as its members in insertion order;
\* members whose value is undefined are left out
RECURSIVE JSONMembers(_, _)
JSONMembers(members, first) ==
    IF Len(members) = 0 THEN <<>>
    ELSE LET m == members[1]
         IN  IF m[2].t = "undefined" THEN JSONMembers(Tail(members), first)
             ELSE (IF first THEN <<>> ELSE <<",">>)
                  \o JSONQuote(m[1]) \o <<":">> \o JSONValueText(m[2])
                  \o JSONMembers(Tail(members), FALSE)
JSONStringify(members) == <<"{">> \o JSONMembers(members, TRUE) \o <<"}">>

\* The parser.  Each step returns [ok, val, next]: the value read and the
\* position after it.  The grammar covers objects whose members are strings,
\* numbers and literals, and those values at top level; any other text is a
\* SyntaxError (ok = FALSE).
ParseFail == [ok |-> FALSE, val |-> Undefined, next |-> 0]

RECURSIVE ParseStringBody(_, _, _)
ParseStringBody(s, i, acc) ==
    IF i > Len(s) THEN ParseFail
    ELSE IF s[i] = Quote THEN [ok |-> TRUE, val |-> JStr(acc), next |-> i + 1]
    ELSE IF s[i] = Backslash
         THEN IF i + 1 <= Len(s) /\ (s[i + 1] = Quote \/ s[i + 1] = Backslash)
              THEN ParseStringBody(s, i + 2, Append(acc, s[i + 1]))
              ELSE ParseFail
    ELSE IF s[i] = ReplacementChar THEN ParseStringBody(s, i + 1, Append(acc, s[i]))
    ELSE ParseStringBody(s, i + 1, Append(acc, s[i]))

RECURSIVE ParseDigits(_, _, _)
ParseDigits(s, i, acc) ==
    IF i <= Len(s) /\ IsDigit(s[i]) THEN ParseDigits(s, i + 1, acc * 10 + DigitValue(s[i]))
    ELSE [ok |-> TRUE, val |-> JNum(acc), next |-> i]

StartsWith(s, i, word) ==
    /\ i + Len(word) - 1 <= Len(s)
    /\ \A k \in 1..Len(word) : s[i + k - 1] = word[k]

ParseScalar(s, i) ==
    IF i > Len(s) THEN ParseFail
    ELSE IF s[i] = Quote THEN ParseStringBody(s, i + 1, <<>>)
    ELSE IF IsDigit(s[i])
         THEN IF s[i] = "0" /\ i + 1 <= Len(s) /\ IsDigit(s[i + 1]) THEN ParseFail
              ELSE ParseDigits(s, i, 0)
    ELSE IF StartsWith(s, i, <<"n", "u", "l", "l">>)
         THEN [ok |-> TRUE, val |-> Null, next |-> i + 4]
    ELSE IF StartsWith(s, i, <<"t", "r", "u", "e">>)
         THEN [ok |-> TRUE, val |-> JBool(TRUE), next |-> i + 4]
    ELSE IF StartsWith(s, i, <<"f", "a", "l", "s", "e">>)
         THEN [ok |-> TRUE, val |-> JBool(FALSE), next |-> i + 5]
    ELSE ParseFail

\* the members after "{" or ",": a later member of the same name wins
RECURSIVE ParseMembers(_, _, _)
ParseMembers(s, i, obj) ==
    IF i > Len(s) \/ s[i] # Quote THEN ParseFail
    ELSE LET key == ParseStringBody(s, i + 1, <<>>)
         IN  IF ~key.ok \/ key.next > Len(s) \/ s[key.next] # ":" THEN ParseFail
             ELSE LET member == ParseScalar(s, key.next + 1)
                      k == key.val.v
                      grown == [x \in (DOMAIN obj) \cup {k} |->
                                    IF x = k THEN member.val ELSE obj[x]]
                  IN  IF ~member.ok \/ member.next > Len(s) THEN ParseFail
                      ELSE IF s[member.next] = "}"
                           THEN [ok |-> TRUE, val |-> JObj(grown), next |-> member.next + 1]
                      ELSE IF s[member.next] = ","
                           THEN ParseMembers(s, member.next + 1, grown)
                      ELSE ParseFail

EmptyObject == [x \in {} |-> Undefined]

\* JSON.parse: [ok |-> FALSE] stands for the SyntaxError it throws
JSONParse(s) ==
    LET top == IF Len(s) > 0 /\ s[1] = "{"
               THEN IF Len(s) >= 2 /\ s[2] = "}"
                    THEN [ok |-> TRUE, val |-> JObj(EmptyObject), next |-> 3]
                    ELSE ParseMembers(s, 2, EmptyObject)
               ELSE ParseScalar(s, 1)
    IN  IF top.ok /\ top.next = Len(s) + 1 THEN top ELSE ParseFail

-----------------------------------------------------------------------------
(* The user directory (src/lib/users.ts) and the session codec.            *)

USERS ==
    << [id |-> <<"1">>,
        username |-> <<"a", "d", "m", "i", "n">>,
        passwordHash |-> <<"a", "d", "m", "i", "n", "1", "2", "3">>,
        role |-> <<"a", "d", "m", "i", "n">>,
        name |-> <<"A", "d", "m", "i", "n", "i", "s", "t", "r", "a", "t", "o", "r">>],
       [id |-> <<"2">>,
        username |-> <<"j", "o", "h", "n">>,
        passwordHash |-> <<"j", "o", "h", "n", "1", "2", "3">>,
        role |-> <<"u", "s", "e", "r">>,
        name |-> <<"J", "o", "h", "n", " ", "D", "o", "e">>],
       [id |-> <<"3">>,
        username |-> <<"s", "a", "r", "a", "h">>,
        passwordHash |-> <<"s", "a", "r", "a", "h", "1", "2", "3">>,
        role |-> <<"u", "s", "e", "r">>,
        name |-> <<"S", "a", "r", "a", "h", " ", "W", "i", "l", "s", "o", "n">>],
       [id |-> <<"4">>,
        username |-> <<"d", "e", "m", "o">>,
        passwordHash |-> <<"d", "e", "m", "o", "1", "2", "3">>,
        role |-> <<"d", "e", "m", "o">>,
        name |-> <<"D", "e", "m", "o", " ", "U", "s", "e", "r">>] >>

\* the result of a lookup that finds nobody
NoUser == [id |-> <<>>, username |-> <<>>, passwordHash |-> <<>>, role |-> <<>>, name |-> <<>>]

SESSION_DURATION == 24 * 60 * 60 * 1000

\* findUserByUsername comparing the usernames as they are
findUserByUsername_exactCase(username) ==
    IF \E i \in 1..Len(USERS) : USERS[i].username = username
    THEN USERS[CHOOSE i \in 1..Len(USERS) : USERS[i].username = username]
    ELSE NoUser

\* the first user whose lower-cased username equals the lower-cased argument
findUserByUsername(username) ==
    IF \E i \in 1..Len(USERS) : toLowerCase(USERS[i].username) = toLowerCase(username)
    THEN USERS[CHOOSE i \in 1..Len(USERS) :
                 /\ toLowerCase(USERS[i].username) = toLowerCase(username)
                 /\ \A j \in 1..(i - 1) :
                        toLowerCase(USERS[j].username) # toLowerCase(username)]
    ELSE NoUser

findUserById(id) ==
    IF \E i \in 1..Len(USERS) : USERS[i].id = id
    THEN USERS[CHOOSE i \in 1..Len(USERS) :
                 USERS[i].id = id /\ \A j \in 1..(i - 1) : USERS[j].id # id]
    ELSE NoUser

authenticateUser(username, password) ==
    LET user == findUserByUsername(username)
    IN  IF user = NoUser THEN NoUser
        ELSE IF user.passwordHash = password THEN user
        ELSE NoUser

K_userId == <<"u", "s", "e", "r", "I", "d">>
K_username == <<"u", "s", "e", "r", "n", "a", "m", "e">>
K_role == <<"r", "o", "l", "e">>
K_name == <<"n", "a", "m", "e">>
K_expiresAt == <<"e", "x", "p", "i", "r", "e", "s", "A", "t">>

\* createSessionToken with the username written where the id belongs
createSessionToken_usernameAsId(user, t) ==
    LET session == << <<K_userId, JStr(user.username)>>,
                      <<K_username, JStr(user.username)>>,
                      <<K_role, JStr(user.role)>>,
                      <<K_name, JStr(user.name)>>,
                      <<K_expiresAt, JNum(t + SESSION_DURATION)>> >>
    IN  Base64Encode(Utf8Encode(JSONStringify(session)))

\* base64 of the JSON text of the session record; t is what Date.now() returns
createSessionToken(user, t) ==
    LET session == << <<K_userId, JStr(user.id)>>,
                      <<K_username, JStr(user.username)>>,
                      <<K_role, JStr(user.role)>>,
                      <<K_name, JStr(user.name)>>,
                      <<K_expiresAt, JNum(t + SESSION_DURATION)>> >>
    IN  Base64Encode(Utf8Encode(JSONStringify(session)))

\* Number(string) where it yields a number (a string of digits, or the empty
\* string); NotANumber otherwise
NotANumber == 0 - 1
RECURSIVE DigitsValue(_, _)
DigitsValue(s, acc) ==
    IF Len(s) = 0 THEN acc
    ELSE IF IsDigit(s[1]) THEN DigitsValue(Tail(s), acc * 10 + DigitValue(s[1]))
    ELSE NotANumber

\* val < n of JavaScript for a number n >= 0: the left side is converted to a
\* number, and a comparison with NaN is false
JsLessThan(val, n) ==
    IF val.t = "number" THEN val.v < n
    ELSE IF val.t = "string"
         THEN DigitsValue(val.v, 0) # NotANumber /\ DigitsValue(val.v, 0) < n
    ELSE IF val.t = "boolean" THEN (IF val.v THEN 1 ELSE 0) < n
    ELSE IF val.t = "null" THEN 0 < n
    ELSE FALSE

\* the decoded session, or Null; whatever the try block throws (the
\* SyntaxError of JSON.parse, the TypeError of reading a property of null)
\* is caught and yields Null; t is what Date.now() returns
\* verifySessionToken accepting a token once: it rejects the token the last
\* response already accepted
verifySessionToken_once(token, t) ==
    LET parsed == JSONParse(Utf8Decode(Base64Decode(token)))
    IN  IF ~parsed.ok THEN Null
        ELSE IF parsed.val.t = "null" THEN Null
        ELSE IF JsLessThan(Prop(parsed.val, K_expiresAt), t) THEN Null
        ELSE IF resp.status = 200 /\ resp.req.token = JStr(token) THEN Null
        ELSE parsed.val

verifySessionToken(token, t) ==
    LET parsed == JSONParse(Utf8Decode(Base64Decode(token)))
    IN  IF ~parsed.ok THEN Null
        ELSE IF parsed.val.t = "null" THEN Null
        ELSE IF JsLessThan(Prop(parsed.val, K_expiresAt), t) THEN Null
        ELSE parsed.val

-----------------------------------------------------------------------------
(* Note texts, timestamps and entries.                                     *)

\* the string of n copies of ch, run-length encoded
Rep(ch, n) == IF n = 0 THEN <<>> ELSE << <<ch, n>> >>

\* string.length
RECURSIVE TextLen(_)
TextLen(text) == IF Len(text) = 0 THEN 0 ELSE text[1][2] + TextLen(Tail(text))

\* string.trim(): the leading and the trailing run of blanks are dropped
TextTrim(text) ==
    LET front == IF Len(text) > 0 /\ text[1][1] = " " THEN Tail(text) ELSE text
    IN  IF Len(front) > 0 /\ front[Len(front)][1] = " "
        THEN SubSeq(front, 1, Len(front) - 1) ELSE front

MsPerDay == 24 * 60 * 60 * 1000

\* new Date(t).toISOString(): the date part and the time-of-day part; ISO
\* strings of the same length order as these pairs do
toISOString(t) == [date |-> t \div MsPerDay, time |-> t % MsPerDay]
IsoBefore(a, b) == a.date < b.date \/ (a.date = b.date /\ a.time < b.time)

JArr(items) == [t |-> "array", v |-> items]

\* a === b
StrictEq(a, b) == a.t = b.t /\ (a.t \in {"undefined", "null"} \/ a.v = b.v)

\* `${val}` in a template literal
ToText(val) ==
    IF val.t = "string" THEN val.v
    ELSE IF val.t = "number" THEN DecimalString(val.v)
    ELSE IF val.t = "undefined" THEN <<"u", "n", "d", "e", "f", "i", "n", "e", "d">>
    ELSE IF val.t = "null" THEN <<"n", "u", "l", "l">>
    ELSE IF val.t = "boolean" THEN (IF val.v THEN <<"t", "r", "u", "e">>
                                    ELSE <<"f", "a", "l", "s", "e">>)
    ELSE <<"[", "o", "b", "j", "e", "c", "t", "]">>

NoEntry == [id |-> <<>>, title |-> <<>>, content |-> <<>>,
            createdAt |-> toISOString(0), updatedAt |-> toISOString(0),
            userId |-> Undefined, attachments |-> <<>>]

\* entries.findIndex(pred): the first index, 0 for the -1 of JavaScript
FindIndex(entries, id, userId) ==
    LET hit(i) == StrictEq(JStr(entries[i].id), id) /\ StrictEq(entries[i].userId, userId)
    IN  IF \E i \in 1..Len(entries) : hit(i)
        THEN CHOOSE i \in 1..Len(entries) : hit(i) /\ \A j \in 1..(i - 1) : ~hit(j)
        ELSE 0

RemoveAt(entries, i) == SubSeq(entries, 1, i - 1) \o SubSeq(entries, i + 1, Len(entries))

-----------------------------------------------------------------------------
(* The storage adapter (src/lib/storage.ts).  Each call of the remote      *)
(* store may throw: the outcome of each call is an input of the operation. *)

\* getUserStorageKey without the user in the key
getUserStorageKey_oneKey(userId) ==
    <<"u", "s", "e", "r", ":", "n", "o", "t", "e", "s">>

getUserStorageKey(userId) ==
    <<"u", "s", "e", "r", ":">> \o ToText(userId) \o <<":", "n", "o", "t", "e", "s">>

\* the filter letting every entry through
OwnedBy_unfiltered(entries, userId) == entries

OwnedBy(entries, userId) == SelectSeq(entries, LAMBDA e : StrictEq(e.userId, userId))

\* getUserEntries staying with the memory map once it holds the user's key
getUserEntries_sticky(userId, kvGetOk) ==
    LET storageKey == getUserStorageKey(userId)
    IN  IF storageKey \in DOMAIN memoryStorage
        THEN [entries |-> memoryStorage[storageKey],
              calls |-> <<"memory.get">>, source |-> "memory", aliased |-> TRUE]
        ELSE IF kvGetOk /\ storageKey \in DOMAIN kv
        THEN [entries |-> OwnedBy(kv[storageKey], userId),
              calls |-> <<"kv.get">>, source |-> "vercel-kv", aliased |-> FALSE]
        ELSE [entries |-> <<>>,
              calls |-> <<"kv.get", "memory.get">>, source |-> "memory",
              aliased |-> FALSE]

\* kvGetOk: kv.get answers (FALSE: it throws).  aliased: the array returned is
\* the very array held by memoryStorage, so changing it in place changes the map.
getUserEntries(userId, kvGetOk) ==
    LET storageKey == getUserStorageKey(userId)
    IN  IF kvGetOk /\ storageKey \in DOMAIN kv
        THEN [entries |-> OwnedBy(kv[storageKey], userId),
              calls |-> <<"kv.get">>, source |-> "vercel-kv", aliased |-> FALSE]
        ELSE [entries |-> IF storageKey \in DOMAIN memoryStorage
                          THEN memoryStorage[storageKey] ELSE <<>>,
              calls |-> <<"kv.get", "memory.get">>, source |-> "memory",
              aliased |-> storageKey \in DOMAIN memoryStorage]

\* map.set(key, value) on a store given as a function
MapSet(map, key, value) ==
    [k \in (DOMAIN map) \cup {key} |-> IF k = key THEN value ELSE map[k]]

\* saveUserEntries writing the texts of the entries only: an entry the target
\* store already holds keeps the attachments stored there
saveUserEntries_patched(userId, entries, kvSetOk, mem) ==
    LET storageKey == getUserStorageKey(userId)
        userEntries == OwnedBy(entries, userId)
        held(store) == IF storageKey \in DOMAIN store THEN store[storageKey] ELSE <<>>
        patch(store) ==
            [n \in 1..Len(userEntries) |->
                IF \E m \in 1..Len(held(store)) : held(store)[m].id = userEntries[n].id
                THEN [userEntries[n] EXCEPT !.attachments =
                        held(store)[CHOOSE m \in 1..Len(held(store)) :
                                       held(store)[m].id = userEntries[n].id].attachments]
                ELSE userEntries[n]]
    IN  IF kvSetOk
        THEN [kv |-> MapSet(kv, storageKey, Listed(patch(kv))), mem |-> mem,
              calls |-> <<"kv.set">>]
        ELSE [kv |-> kv, mem |-> MapSet(mem, storageKey, Listed(patch(mem))),
              calls |-> <<"kv.set", "memory.set">>]

\* mem: the memory map as the caller's in-place changes left it
saveUserEntries(userId, entries, kvSetOk, mem) ==
    LET storageKey == getUserStorageKey(userId)
        userEntries == OwnedBy(entries, userId)
    IN  IF kvSetOk
        THEN [kv |-> MapSet(kv, storageKey, userEntries), mem |-> mem,
              calls |-> <<"kv.set">>]
        ELSE [kv |-> kv, mem |-> MapSet(mem, storageKey, userEntries),
              calls |-> <<"kv.set", "memory.set">>]

\* title.trim() throws a TypeError unless title is a string
HasTrim(val) == val.t = "string"

\* createUserEntry putting the new entry behind the entries it read
createUserEntry_appended(userId, title, content, attachments, env) ==
    LET got == getUserEntries(userId, env.kvGetOk)
        newEntry == [id |-> DecimalString(now) \o env.rnd,
                     title |-> TextTrim(title.v),
                     content |-> TextTrim(content.v),
                     createdAt |-> toISOString(now),
                     updatedAt |-> toISOString(now + env.lag),
                     userId |-> userId,
                     attachments |-> IF attachments.t = "array" THEN attachments.v ELSE <<>>]
        updatedEntries == got.entries \o <<newEntry>>
        saved == saveUserEntries(userId, updatedEntries, env.kvSetOk, memoryStorage)
    IN  IF ~HasTrim(title) \/ ~HasTrim(content)
        THEN [entry |-> NoEntry, prior |-> NoEntry, threw |-> TRUE, kv |-> kv,
              mem |-> memoryStorage, calls |-> got.calls, now |-> now]
        ELSE [entry |-> newEntry, prior |-> NoEntry, threw |-> FALSE,
              kv |-> saved.kv, mem |-> saved.mem,
              calls |-> got.calls \o saved.calls, now |-> now + env.lag]

\* env: what the environment does during the call (kvGetOk, kvSetOk, the
\* random suffix rnd, and lag, the milliseconds that pass between the two
\* new Date() of lines 78 and 79).  threw: the call ended in a TypeError,
\* after the read and before any write
createUserEntry(userId, title, content, attachments, env) ==
    LET got == getUserEntries(userId, env.kvGetOk)
        newEntry == [id |-> DecimalString(now) \o env.rnd,
                     title |-> TextTrim(title.v),
                     content |-> TextTrim(content.v),
                     createdAt |-> toISOString(now),
                     updatedAt |-> toISOString(now + env.lag),
                     userId |-> userId,
                     attachments |-> IF attachments.t = "array" THEN attachments.v ELSE <<>>]
        updatedEntries == <<newEntry>> \o got.entries
        saved == saveUserEntries(userId, updatedEntries, env.kvSetOk, memoryStorage)
    IN  IF ~HasTrim(title) \/ ~HasTrim(content)
        THEN [entry |-> NoEntry, prior |-> NoEntry, threw |-> TRUE, kv |-> kv,
              mem |-> memoryStorage, calls |-> got.calls, now |-> now]
        ELSE [entry |-> newEntry, prior |-> NoEntry, threw |-> FALSE,
              kv |-> saved.kv, mem |-> saved.mem,
              calls |-> got.calls \o saved.calls, now |-> now + env.lag]

\* updateUserEntry taking a missing attachments argument for an empty list
updateUserEntry_cleared(userId, id, title, content, attachments, env) ==
    LET got == getUserEntries(userId, env.kvGetOk)
        entryIndex == FindIndex(got.entries, id, userId)
        updatedEntry == [got.entries[entryIndex] EXCEPT
                            !.title = TextTrim(title.v),
                            !.content = TextTrim(content.v),
                            !.updatedAt = toISOString(now),
                            !.attachments = IF attachments.t # "undefined"
                                            THEN attachments.v ELSE <<>>]
        entries == [got.entries EXCEPT ![entryIndex] = updatedEntry]
        mem == IF got.aliased
               THEN MapSet(memoryStorage, getUserStorageKey(userId), entries)
               ELSE memoryStorage
        saved == saveUserEntries(userId, entries, env.kvSetOk, mem)
    IN  IF entryIndex = 0
        THEN [entry |-> NoEntry, prior |-> NoEntry, found |-> FALSE, threw |-> FALSE,
              kv |-> kv, mem |-> memoryStorage, calls |-> got.calls, now |-> now]
        ELSE IF ~HasTrim(title) \/ ~HasTrim(content)
        THEN [entry |-> NoEntry, prior |-> NoEntry, found |-> TRUE, threw |-> TRUE,
              kv |-> kv, mem |-> memoryStorage, calls |-> got.calls, now |-> now]
        ELSE [entry |-> updatedEntry, prior |-> got.entries[entryIndex], found |-> TRUE,
              threw |-> FALSE, kv |-> saved.kv, mem |-> saved.mem,
              calls |-> got.calls \o saved.calls, now |-> now]

\* updateUserEntry stamping createdAt as well as updatedAt
updateUserEntry_restamped(userId, id, title, content, attachments, env) ==
    LET got == getUserEntries(userId, env.kvGetOk)
        entryIndex == FindIndex(got.entries, id, userId)
        updatedEntry == [got.entries[entryIndex] EXCEPT
                            !.title = TextTrim(title.v),
                            !.content = TextTrim(content.v),
                            !.createdAt = toISOString(now),
                            !.updatedAt = toISOString(now),
                            !.attachments = IF attachments.t # "undefined"
                                            THEN attachments.v ELSE @]
        entries == [got.entries EXCEPT ![entryIndex] = updatedEntry]
        mem == IF got.aliased
               THEN MapSet(memoryStorage, getUserStorageKey(userId), entries)
               ELSE memoryStorage
        saved == saveUserEntries(userId, entries, env.kvSetOk, mem)
    IN  IF entryIndex = 0
        THEN [entry |-> NoEntry, prior |-> NoEntry, found |-> FALSE, threw |-> FALSE,
              kv |-> kv, mem |-> memoryStorage, calls |-> got.calls, now |-> now]
        ELSE IF ~HasTrim(title) \/ ~HasTrim(content)
        THEN [entry |-> NoEntry, prior |-> NoEntry, found |-> TRUE, threw |-> TRUE,
              kv |-> kv, mem |-> memoryStorage, calls |-> got.calls, now |-> now]
        ELSE [entry |-> updatedEntry, prior |-> got.entries[entryIndex], found |-> TRUE,
              threw |-> FALSE, kv |-> saved.kv, mem |-> saved.mem,
              calls |-> got.calls \o saved.calls, now |-> now]

updateUserEntry(userId, id, title, content, attachments, env) ==
    LET got == getUserEntries(userId, env.kvGetOk)
        entryIndex == FindIndex(got.entries, id, userId)
        updatedEntry == [got.entries[entryIndex] EXCEPT
                            !.title = TextTrim(title.v),
                            !.content = TextTrim(content.v),
                            !.updatedAt = toISOString(now),
                            !.attachments = IF attachments.t # "undefined"
                                            THEN attachments.v ELSE @]
        entries == [got.entries EXCEPT ![entryIndex] = updatedEntry]
        mem == IF got.aliased
               THEN MapSet(memoryStorage, getUserStorageKey(userId), entries)
               ELSE memoryStorage
        saved == saveUserEntries(userId, entries, env.kvSetOk, mem)
    IN  IF entryIndex = 0
        THEN [entry |-> NoEntry, prior |-> NoEntry, found |-> FALSE, threw |-> FALSE,
              kv |-> kv, mem |-> memoryStorage, calls |-> got.calls, now |-> now]
        ELSE IF ~HasTrim(title) \/ ~HasTrim(content)
        THEN [entry |-> NoEntry, prior |-> NoEntry, found |-> TRUE, threw |-> TRUE,
              kv |-> kv, mem |-> memoryStorage, calls |-> got.calls, now |-> now]
        ELSE [entry |-> updatedEntry, prior |-> got.entries[entryIndex], found |-> TRUE,
              threw |-> FALSE, kv |-> saved.kv, mem |-> saved.mem,
              calls |-> got.calls \o saved.calls, now |-> now]

deleteUserEntry(userId, id, env) ==
    LET got == getUserEntries(userId, env.kvGetOk)
        entryIndex == FindIndex(got.entries, id, userId)
        entries == RemoveAt(got.entries, entryIndex)
        mem == IF got.aliased
               THEN MapSet(memoryStorage, getUserStorageKey(userId), entries)
               ELSE memoryStorage
        saved == saveUserEntries(userId, entries, env.kvSetOk, mem)
    IN  IF entryIndex = 0
        THEN [entry |-> NoEntry, prior |-> NoEntry, found |-> FALSE, kv |-> kv,
              mem |-> memoryStorage, calls |-> got.calls, now |-> now]
        ELSE [entry |-> NoEntry, prior |-> got.entries[entryIndex], found |-> TRUE,
              kv |-> saved.kv, mem |-> saved.mem,
              calls |-> got.calls \o saved.calls, now |-> now]

\* the entries held anywhere, and their ids
EntriesOf(map) == UNION {{map[k][i] : i \in 1..Len(map[k])} : k \in DOMAIN map}
StoredEntries == EntriesOf(kv) \cup EntriesOf(memoryStorage)
StoredIds == {e.id : e \in StoredEntries}

getStorageInfo(pingOk) ==
    IF pingOk THEN [isGlobal |-> TRUE, storage |-> "vercel-kv", calls |-> <<"kv.ping">>]
    ELSE [isGlobal |-> FALSE, storage |-> "memory", calls |-> <<"kv.ping">>]

-----------------------------------------------------------------------------
(* The /api/content route handlers (src/app/api/content/route.ts).         *)
(* A handler yields the response together with the stores and the clock as *)
(* it leaves them.  session is what verifySessionToken(token) returns at   *)
(* the line where the handler calls it.                                    *)

\* a response that touched no store
Refused(status) ==
    [status |-> status, entries |-> <<>>, count |-> 0, entry |-> NoEntry, prior |-> NoEntry,
     calls |-> <<>>, storage |-> "none", isGlobal |-> FALSE,
     kv |-> kv, mem |-> memoryStorage, now |-> now]

\* a response after a call of the storage adapter
Answered(status, done) ==
    [status |-> status, entries |-> <<>>, count |-> 0, entry |-> done.entry,
     prior |-> done.prior, calls |-> done.calls, storage |-> "none", isGlobal |-> FALSE,
     kv |-> done.kv, mem |-> done.mem, now |-> done.now]

\* val.length where a comparison with it can be true: the length of a
\* string; the undefined length of a number or a boolean compares false with
\* every limit, as this 0 does
JsLength(val) == IF val.t = "string" THEN TextLen(val.v) ELSE 0

MaxTitleLength == 100
MaxContentLength == 5000

\* GET reading the collection before it looks at the session
GET_readFirst(token, session, env) ==
    LET got == getUserEntries(Prop(session, K_userId), env.kvGetOk)
        storageInfo == getStorageInfo(env.pingOk)
    IN  IF Falsy(token) \/ Falsy(session)
        THEN [Refused(401) EXCEPT !.calls = got.calls]
        ELSE [status |-> 200, entries |-> got.entries, count |-> Len(got.entries),
              entry |-> NoEntry, prior |-> NoEntry,
              calls |-> got.calls \o storageInfo.calls,
              storage |-> storageInfo.storage, isGlobal |-> storageInfo.isGlobal,
              kv |-> kv, mem |-> memoryStorage, now |-> now]

GET(token, session, env) ==
    IF Falsy(token) THEN Refused(401)
    ELSE IF Falsy(session) THEN Refused(401)
    ELSE LET got == getUserEntries(Prop(session, K_userId), env.kvGetOk)
             storageInfo == getStorageInfo(env.pingOk)
         IN  [status |-> 200, entries |-> got.entries, count |-> Len(got.entries),
              entry |-> NoEntry, prior |-> NoEntry,
              calls |-> got.calls \o storageInfo.calls,
              storage |-> storageInfo.storage, isGlobal |-> storageInfo.isGlobal,
              kv |-> kv, mem |-> memoryStorage, now |-> now]

\* POST refusing a text that is as long as its limit
POST_offByOne(body, session, env) ==
    IF Falsy(body.token) THEN Refused(401)
    ELSE IF Falsy(session) THEN Refused(401)
    ELSE IF Falsy(body.title) \/ Falsy(body.content) THEN Refused(400)
    ELSE IF JsLength(body.title) >= MaxTitleLength THEN Refused(400)
    ELSE IF JsLength(body.content) >= MaxContentLength THEN Refused(400)
    ELSE LET entry == createUserEntry(Prop(session, K_userId), body.title, body.content,
                                      body.attachments, env)
         IN  IF entry.threw THEN Answered(500, entry) ELSE Answered(200, entry)

POST(body, session, env) ==
    IF Falsy(body.token) THEN Refused(401)
    ELSE IF Falsy(session) THEN Refused(401)
    ELSE IF Falsy(body.title) \/ Falsy(body.content) THEN Refused(400)
    ELSE IF JsLength(body.title) > MaxTitleLength THEN Refused(400)
    ELSE IF JsLength(body.content) > MaxContentLength THEN Refused(400)
    ELSE LET entry == createUserEntry(Prop(session, K_userId), body.title, body.content,
                                      body.attachments, env)
         IN  IF entry.threw THEN Answered(500, entry) ELSE Answered(200, entry)

\* PUT changing the entry under the user who owns it, whoever asks
PUT_ofItsOwner(body, session, env) ==
    IF Falsy(body.token) THEN Refused(401)
    ELSE IF Falsy(session) THEN Refused(401)
    ELSE IF Falsy(body.id) \/ Falsy(body.title) \/ Falsy(body.content) THEN Refused(400)
    ELSE IF JsLength(body.title) > MaxTitleLength THEN Refused(400)
    ELSE IF JsLength(body.content) > MaxContentLength THEN Refused(400)
    ELSE LET owners == {e.userId : e \in {x \in StoredEntries : StrictEq(JStr(x.id), body.id)}}
             owner == IF owners = {} THEN Prop(session, K_userId)
                      ELSE CHOOSE userId \in owners : TRUE
             entry == updateUserEntry(owner, body.id, body.title,
                                      body.content, body.attachments, env)
         IN  IF entry.threw THEN Answered(500, entry)
             ELSE IF ~entry.found THEN Answered(404, entry) ELSE Answered(200, entry)

PUT(body, session, env) ==
    IF Falsy(body.token) THEN Refused(401)
    ELSE IF Falsy(session) THEN Refused(401)
    ELSE IF Falsy(body.id) \/ Falsy(body.title) \/ Falsy(body.content) THEN Refused(400)
    ELSE IF JsLength(body.title) > MaxTitleLength THEN Refused(400)
    ELSE IF JsLength(body.content) > MaxContentLength THEN Refused(400)
    ELSE LET entry == updateUserEntry(Prop(session, K_userId), body.id, body.title,
                                      body.content, body.attachments, env)
         IN  IF entry.threw THEN Answered(500, entry)
             ELSE IF ~entry.found THEN Answered(404, entry) ELSE Answered(200, entry)

DELETE(body, session, env) ==
    IF Falsy(body.token) THEN Refused(401)
    ELSE IF Falsy(session) THEN Refused(401)
    ELSE IF Falsy(body.id) THEN Refused(400)
    ELSE LET deleted == deleteUserEntry(Prop(session, K_userId), body.id, env)
         IN  IF ~deleted.found THEN Answered(404, deleted) ELSE Answered(200, deleted)

-----------------------------------------------------------------------------
(* The auth routes: POST /api/auth/login and POST /api/auth/verify.        *)

\* the username, name and role of the user object of a response
NoProfile == [username |-> Undefined, name |-> Undefined, role |-> Undefined]
ProfileOf(user) ==
    [username |-> JStr(user.username), name |-> JStr(user.name), role |-> JStr(user.role)]

NoAuth(status) ==
    [status |-> status, token |-> Undefined, user |-> Undefined, profile |-> NoProfile]

\* the one-second delay before the 401 changes no state and is left to Tick
LOGIN(body) ==
    IF Falsy(body.username) \/ Falsy(body.password) THEN NoAuth(400)
    ELSE LET user == authenticateUser(trim(body.username.v), body.password.v)
         IN  IF user = NoUser THEN NoAuth(401)
             ELSE [status |-> 200, token |-> JStr(createSessionToken(user, now)),
                   user |-> JStr(user.id), profile |-> ProfileOf(user)]

VERIFY(body, session) ==
    IF Falsy(body.token) THEN NoAuth(400)
    ELSE IF Falsy(session) THEN NoAuth(401)
    ELSE [status |-> 200, token |-> Undefined, user |-> Prop(session, K_userId),
          profile |-> [username |-> Prop(session, K_username),
                       name |-> Prop(session, K_name),
                       role |-> Prop(session, K_role)]]

\* the verify handler that looks the user of the session up in the directory
VERIFY_DIRECTORY(body, session) ==
    IF Falsy(body.token) THEN NoAuth(400)
    ELSE IF Falsy(session) THEN NoAuth(401)
    ELSE LET userId == Prop(session, K_userId)
             user == IF userId.t = "string" THEN findUserById(userId.v) ELSE NoUser
         IN  IF user = NoUser THEN NoAuth(404)
             ELSE [status |-> 200, token |-> Undefined, user |-> JStr(user.id),
                   profile |-> ProfileOf(user)]

-----------------------------------------------------------------------------
(* The state machine.                                                      *)

Clients == {1, 2}

\* the clock of the first state; a day and more after the epoch, so that a
\* token issued at the epoch has expired
StartTime == 2 * SESSION_DURATION

\* the attachments and the file error of the form of a new note
EmptyForm == [attachments |-> <<>>, fileError |-> "none"]

\* localStorage: the authToken item of the browser's localStorage.  entries:
\* data.entries.  isLoading: the page shows the loading screen of the notes.
\* inflight: the requests of verifyToken and fetchEntries that are sent and
\* not yet answered, each with the token in the closure that sent it.
\* page: the page component the browser runs, "part_000" or "page.tsx"
LoggedOut == [authToken |-> Null, currentUser |-> Null, issuedAt |-> 0,
              newEntry |-> EmptyForm, localStorage |-> Null, entries |-> <<>>,
              isLoading |-> TRUE, inflight |-> {}, page |-> "part_000"]

NoRequest == [token |-> Undefined]

-----------------------------------------------------------------------------
(***************************************************************************)
(* The file-backed variants of the content route: src/unnamed/part_002     *)
(* (with writeDataSafely, "safe") and src/app/api/content/route.ts lines   *)
(* 176-321 (writing the data file in place, "plain").  Neither has         *)
(* accounts: one JSON document data/content.json holds every entry.        *)
(* A request is a task that advances from one await to the next; the file  *)
(* system calls of several tasks interleave.  fs.writeFile is an open with *)
(* truncation followed by a write, fs.rename moves the name to the file    *)
(* the temporary name points at.  The directory data/ exists.              *)
(***************************************************************************)
Tasks == 1..MaxTasks

\* a file is known by its number; a path names a file, or nothing (Absent);
\* a task that has opened a file keeps it by its number
Inodes == 1..(MaxTasks + 2)
Absent == 0

\* the contents of a file: no file, opened for writing with nothing
\* written yet, the JSON of a document, bytes that are no JSON, and the head
\* of one document followed by the tail of a longer one
Free == [t |-> "free"]
Truncated == [t |-> "truncated"]
Garbage == [t |-> "garbage"]
Mixed(length) == [t |-> "mixed", length |-> length]
Doc(entries, lastModified) ==
    [t |-> "doc", entries |-> entries, lastModified |-> lastModified]

\* the characters of one entry in JSON.stringify(data, null, 2) besides its
\* id, title and content: the braces, the keys, the two ISO timestamps, the
\* indentation and the line breaks
EntryFrameLength == 160

RECURSIVE EntriesJsonLength(_)
EntriesJsonLength(entries) ==
    IF Len(entries) = 0 THEN 0
    ELSE EntryFrameLength + Len(entries[1].id) + TextLen(entries[1].title)
         + TextLen(entries[1].content) + EntriesJsonLength(Tail(entries))

\* the length of a file, counted without what every document has
FileLength(file) ==
    IF file.t = "doc" THEN EntriesJsonLength(file.entries)
    ELSE IF file.t = "mixed" THEN file.length
    ELSE 0

\* a write at position 0 of an open file: the bytes past the end of the new
\* text stay
WriteOver(old, new) ==
    IF FileLength(old) > FileLength(new) THEN Mixed(FileLength(old)) ELSE new

\* the files some path or some open handle refers to
Referenced(d, tk) == ({d.data, d.tmp} \cup {tk[t].fd : t \in Tasks}) \ {Absent}

\* a file no path and no handle refers to is gone
Collect(d, tk) ==
    [d EXCEPT !.files = [i \in Inodes |-> IF i \in Referenced(d, tk) THEN @[i] ELSE Free]]

\* the number of a new file
NewInode(d, tk) ==
    CHOOSE i \in Inodes : /\ i \notin Referenced(d, tk)
                          /\ \A j \in 1..(i - 1) : j \in Referenced(d, tk)

\* open(path, "w"): the file of the path is emptied, or a new empty file is
\* made; path is "data" for DATA_FILE and "tmp" for DATA_FILE + ".tmp"
OpenForWrite(path, d, tk) ==
    LET at == IF path = "data" THEN d.data ELSE d.tmp
        fd == IF at = Absent THEN NewInode(d, tk) ELSE at
        named == IF path = "data" THEN [d EXCEPT !.data = fd] ELSE [d EXCEPT !.tmp = fd]
    IN  [disk |-> [named EXCEPT !.files[fd] = Truncated], fd |-> fd]

\* the content of DATA_FILE, Free when there is no such file
DataFile(d) == IF d.data = Absent THEN Free ELSE d.files[d.data]

\* an entry of the file-backed variants
NoFileEntry == [id |-> <<>>, title |-> <<>>, content |-> <<>>,
                createdAt |-> toISOString(0), updatedAt |-> toISOString(0)]

\* entries.findIndex((entry) => entry.id === id), 0 for -1
FileFindIndex(entries, id) ==
    LET hit(i) == StrictEq(JStr(entries[i].id), id)
    IN  IF \E i \in 1..Len(entries) : hit(i)
        THEN CHOOSE i \in 1..Len(entries) : hit(i) /\ \A j \in 1..(i - 1) : ~hit(j)
        ELSE 0

\* entries.splice(index, 1)
Splice(entries, index) ==
    SubSeq(entries, 1, index - 1) \o SubSeq(entries, index + 1, Len(entries))

\* fs.readFile and JSON.parse of ensureDataFile: the entries read, or the
\* reason of the read error
ReadDataFile(d) ==
    LET file == DataFile(d)
    IN  IF file.t = "doc" THEN [saw |-> "doc", entries |-> file.entries]
        ELSE IF file.t = "free" THEN [saw |-> "missing", entries |-> <<>>]
        ELSE [saw |-> "corrupt", entries |-> <<>>]

\* the body of a request, and a request that has not come yet
NoBody == [id |-> Undefined, title |-> Undefined, content |-> Undefined]
IdleTask == [kind |-> "none", pc |-> "idle", body |-> NoBody, data |-> <<>>,
             fd |-> Absent, status |-> 0, entries |-> <<>>, entry |-> NoFileEntry,
             saw |-> "none"]

\* the response of a request: nothing more of it runs
Respond(task, status) == [task EXCEPT !.pc = "done", !.status = status]

\* the validation of a text of the body: part_002 wants a string that is not
\* blank, route.ts wants a truthy value
RefusedText(variant, val) ==
    IF variant = "safe"
    THEN Falsy(val) \/ val.t # "string" \/ TextLen(TextTrim(val.v)) = 0
    ELSE Falsy(val)

\* the validation of the id of the body
RefusedId(variant, id) ==
    IF variant = "safe" THEN Falsy(id) \/ id.t # "string" ELSE Falsy(id)

\* Math.random().toString(36).substr(2, 9): another string at every call
RandomSuffix(t) == <<<<"k">>, <<"z">>, <<"q">>, <<"w">>, <<"v">>>>[t]

\* the id of a new entry: Date.now(), a dash and the random string in
\* part_002, Date.now() and the random string in route.ts
NewFileId(variant, t) ==
    IF variant = "safe" THEN DecimalString(now) \o <<"-">> \o RandomSuffix(t)
    ELSE DecimalString(now) \o RandomSuffix(t)

\* the first step of writing the collection
WriteStep(variant) == IF variant = "safe" THEN "tmpOpen" ELSE "dataOpen"

\* the handler after ensureDataFile has returned the entries: GET answers;
\* POST, PUT and DELETE change their copy of the collection and go on to
\* write it, PUT and DELETE answer 404 for an id that is not there, and a
\* text without trim() throws into the catch of the handler
AfterRead(variant, t, task, entries) ==
    LET title == task.body.title
        content == task.body.content
        newEntry == [id |-> NewFileId(variant, t),
                     title |-> TextTrim(title.v),
                     content |-> TextTrim(content.v),
                     createdAt |-> toISOString(now),
                     updatedAt |-> toISOString(now)]
        entryIndex == FileFindIndex(entries, task.body.id)
        updatedEntry == [entries[entryIndex] EXCEPT
                            !.title = TextTrim(title.v),
                            !.content = TextTrim(content.v),
                            !.updatedAt = toISOString(now)]
        write(data, entry) ==
            [task EXCEPT !.pc = WriteStep(variant), !.data = data, !.entry = entry]
    IN  CASE task.kind = "GET" -> [Respond(task, 200) EXCEPT !.entries = entries]
          [] task.kind = "POST" ->
                IF ~HasTrim(title) \/ ~HasTrim(content) THEN Respond(task, 500)
                ELSE write(<<newEntry>> \o entries, newEntry)
          [] task.kind = "PUT" ->
                IF entryIndex = 0 THEN Respond(task, 404)
                ELSE IF ~HasTrim(title) \/ ~HasTrim(content) THEN Respond(task, 500)
                ELSE write([entries EXCEPT ![entryIndex] = updatedEntry], updatedEntry)
          [] task.kind = "DELETE" ->
                IF entryIndex = 0 THEN Respond(task, 404)
                ELSE write(Splice(entries, entryIndex), entries[entryIndex])

\* the catch of a read error in ensureDataFile ending the request
readError_thrown(task, saw) == [Respond(task, 500) EXCEPT !.saw = saw]

\* the catch of a read error in ensureDataFile: a new data file is written
readError(task, saw) == [task EXCEPT !.pc = "initOpen", !.saw = saw]

\* lastModified of the document: part_002 stamps it, route.ts has none
NoLastModified == toISOString(0)
LastModified(variant) == IF variant = "safe" THEN toISOString(now) ELSE NoLastModified

\* the requests come one after the other, and each is handled once
MayStart(t) ==
    /\ tasks[t].pc = "idle"
    /\ IF t = 1 THEN TRUE ELSE tasks[t - 1].pc # "idle"

Started(t, kind, body, refused) ==
    /\ MayStart(t)
    /\ tasks' = [tasks EXCEPT ![t] =
                    IF refused THEN Respond([IdleTask EXCEPT !.kind = kind, !.body = body], 400)
                    ELSE [IdleTask EXCEPT !.kind = kind, !.body = body, !.pc = "read"]]
    /\ UNCHANGED <<appVars, disk>>

\* GET up to its first file system call
FileGET(T) ==
    \E t \in T : Started(t, "GET", NoBody, FALSE)

\* POST up to its first file system call: the validation of the body
FilePOST(T, notes) ==
    \E t \in T : \E note \in notes :
        Started(t, "POST", [NoBody EXCEPT !.title = note.title, !.content = note.content],
                RefusedText(disk.variant, note.title)
                    \/ RefusedText(disk.variant, note.content))

\* PUT up to its first file system call
FilePUT(T, ids, notes) ==
    \E t \in T : \E id \in ids : \E note \in notes :
        Started(t, "PUT", [id |-> id, title |-> note.title, content |-> note.content],
                RefusedId(disk.variant, id)
                    \/ RefusedText(disk.variant, note.title)
                    \/ RefusedText(disk.variant, note.content))

\* DELETE up to its first file system call
FileDELETE(T, ids) ==
    \E t \in T : \E id \in ids :
        Started(t, "DELETE", [NoBody EXCEPT !.id = id], RefusedId(disk.variant, id))

\* ensureDataFile reads and parses DATA_FILE; with the entries the handler
\* runs on to its next file system call
ReadStep(T) ==
    \E t \in T :
        /\ tasks[t].pc = "read"
        /\ \E got \in {ReadDataFile(disk)} :
              tasks' = [tasks EXCEPT ![t] =
                          IF got.saw = "doc"
                          THEN AfterRead(disk.variant, t, [@ EXCEPT !.saw = "doc"], got.entries)
                          ELSE readError(@, got.saw)]
        /\ UNCHANGED <<appVars, disk>>

\* fs.writeFile(DATA_FILE, initialData) of ensureDataFile opens the file;
\* when that fails the outer catch returns the empty collection
InitOpen(T) ==
    \E t \in T : \E ok \in BOOLEAN :
        /\ tasks[t].pc = "initOpen"
        /\ IF ok
           THEN \E opened \in {OpenForWrite("data", disk, tasks)} :
                    /\ disk' = opened.disk
                    /\ tasks' = [tasks EXCEPT ![t].pc = "initWrite", ![t].fd = opened.fd]
           ELSE /\ tasks' = [tasks EXCEPT ![t] = AfterRead(disk.variant, t, @, <<>>)]
                /\ disk' = disk
        /\ UNCHANGED appVars

\* a write to the file a task holds open, and its close
Written(t, doc) ==
    LET closed == [tasks EXCEPT ![t].fd = Absent]
    IN  Collect([disk EXCEPT !.files[tasks[t].fd] = WriteOver(@, doc)], closed)

\* fs.writeFile(DATA_FILE, initialData) writes the empty collection, and
\* the handler runs on with it
InitWrite(T) ==
    \E t \in T :
        /\ tasks[t].pc = "initWrite"
        /\ disk' = Written(t, Doc(<<>>, LastModified(disk.variant)))
        /\ tasks' = [tasks EXCEPT ![t] =
                        AfterRead(disk.variant, t, [@ EXCEPT !.fd = Absent], <<>>)]
        /\ UNCHANGED appVars

\* fs.writeFile(tempFile, jsonData) of writeDataSafely opens the file
TmpOpen(T) ==
    \E t \in T : \E ok \in BOOLEAN :
        /\ tasks[t].pc = "tmpOpen"
        /\ IF ok
           THEN \E opened \in {OpenForWrite("tmp", disk, tasks)} :
                    /\ disk' = opened.disk
                    /\ tasks' = [tasks EXCEPT ![t].pc = "tmpWrite", ![t].fd = opened.fd]
           ELSE /\ tasks' = [tasks EXCEPT ![t].pc = "cleanup"]
                /\ disk' = disk
        /\ UNCHANGED appVars

\* fs.writeFile(tempFile, jsonData) writes the collection
TmpWrite(T) ==
    \E t \in T :
        /\ tasks[t].pc = "tmpWrite"
        /\ disk' = Written(t, Doc(tasks[t].data, LastModified(disk.variant)))
        /\ tasks' = [tasks EXCEPT ![t].pc = "rename", ![t].fd = Absent]
        /\ UNCHANGED appVars

\* fs.rename(tempFile, DATA_FILE), and the response of the handler; without
\* a temporary file the rename throws
Rename(T) ==
    \E t \in T :
        /\ tasks[t].pc = "rename"
        /\ IF disk.tmp = Absent
           THEN /\ tasks' = [tasks EXCEPT ![t].pc = "cleanup"]
                /\ disk' = disk
           ELSE /\ tasks' = [tasks EXCEPT ![t] = Respond(@, 200)]
                /\ disk' = Collect([disk EXCEPT !.data = disk.tmp, !.tmp = Absent], tasks)
        /\ UNCHANGED appVars

\* the catch of writeDataSafely: fs.unlink(tempFile), and the error that the
\* handler answers with 500
Cleanup(T) ==
    \E t \in T :
        /\ tasks[t].pc = "cleanup"
        /\ tasks' = [tasks EXCEPT ![t] = Respond(@, 500)]
        /\ disk' = Collect([disk EXCEPT !.tmp = Absent], tasks)
        /\ UNCHANGED appVars

\* fs.writeFile(DATA_FILE, ...) of writeData opens the data file; when that
\* fails the handler answers with 500
DataOpen(T) ==
    \E t \in T : \E ok \in BOOLEAN :
        /\ tasks[t].pc = "dataOpen"
        /\ IF ok
           THEN \E opened \in {OpenForWrite("data", disk, tasks)} :
                    /\ disk' = opened.disk
                    /\ tasks' = [tasks EXCEPT ![t].pc = "dataWrite", ![t].fd = opened.fd]
           ELSE /\ tasks' = [tasks EXCEPT ![t] = Respond(@, 500)]
                /\ disk' = disk
        /\ UNCHANGED appVars

\* fs.writeFile(DATA_FILE, ...) of writeData writes the collection, and the
\* handler answers
DataWrite(T) ==
    \E t \in T :
        /\ tasks[t].pc = "dataWrite"
        /\ disk' = Written(t, Doc(tasks[t].data, LastModified(disk.variant)))
        /\ tasks' = [tasks EXCEPT ![t] = [Respond(@, 200) EXCEPT !.fd = Absent]]
        /\ UNCHANGED appVars

\* the data/ directory of the first state: without a data file, with a data
\* file that is no JSON, and with a data file of one entry
SeedEntry == [id |-> DecimalString(StartTime - 1) \o <<"-">> \o <<"s">>,
              title |-> Rep("s", 1), content |-> Rep("s", 1),
              createdAt |-> toISOString(StartTime - 1),
              updatedAt |-> toISOString(StartTime - 1)]

StartDisk(variant, start) ==
    [variant |-> variant, start |-> start,
     data |-> IF start = "missing" THEN Absent ELSE 1,
     tmp |-> Absent,
     files |-> [i \in Inodes |->
                   IF i # 1 \/ start = "missing" THEN Free
                   ELSE IF start = "corrupt" THEN Garbage
                   ELSE Doc(<<SeedEntry>>, IF variant = "safe"
                                           THEN toISOString(StartTime - 1)
                                           ELSE NoLastModified)]]

NoTasks == [t \in Tasks |-> IdleTask]

-----------------------------------------------------------------------------
\* The storage adapter call by call.  A call of createUserEntry,
\* updateUserEntry or deleteUserEntry awaits kv.get inside getUserEntries,
\* runs on without a pause up to the kv.set of saveUserEntries, and awaits
\* that; calls of other requests run in between the two awaits

\* the calls of the adapter that may be under way at once
MaxCalls == 2
Calls == 1 .. MaxCalls

\* pc: "idle", "get" (awaiting kv.get), "set" (awaiting kv.set), "done".
\* userEntries: the array saveUserEntries filtered out before kv.set.
\* entry, found: what the call returns.  failed: a remote call of it threw.
\* readAt, savedAt: the place of its two awaits among all the awaits resolved.
\* savedTo: the store its saveUserEntries wrote
NoCall ==
    [pc |-> "idle", op |-> "none", userId |-> Undefined, id |-> Undefined,
     req |-> NoRequest, userEntries |-> <<>>, entry |-> NoEntry, found |-> FALSE,
     failed |-> FALSE, readAt |-> 0, savedAt |-> 0, savedTo |-> "none"]

NoCalls == [i \in Calls |-> NoCall]

\* the awaits resolved so far
Resolved ==
    Cardinality({i \in Calls : pending[i].readAt > 0})
        + Cardinality({i \in Calls : pending[i].savedAt > 0})

\* calls are numbered in the order they are made
MayCall(i) ==
    /\ pending[i].pc = "idle"
    /\ IF i = 1 THEN TRUE ELSE pending[i - 1].pc # "idle"

\* POST /content of an authenticated user with a valid body calls
\* createUserEntry, which calls getUserEntries, which awaits kv.get
CallCreate(userIds, notes) ==
    \E i \in Calls, userId \in userIds, note \in notes :
        /\ MayCall(i)
        /\ pending' = [pending EXCEPT ![i] =
               [NoCall EXCEPT !.pc = "get", !.op = "create", !.userId = userId,
                              !.req = note]]
        /\ UNCHANGED <<now, kv, memoryStorage, client, resp, disk, tasks>>

\* PUT /content likewise calls updateUserEntry
CallUpdate(userIds, notes) ==
    \E i \in Calls, userId \in userIds, note \in notes, id \in StoredIds :
        /\ MayCall(i)
        /\ pending' = [pending EXCEPT ![i] =
               [NoCall EXCEPT !.pc = "get", !.op = "update", !.userId = userId,
                              !.id = JStr(id), !.req = note]]
        /\ UNCHANGED <<now, kv, memoryStorage, client, resp, disk, tasks>>

\* DELETE /content likewise calls deleteUserEntry
CallDelete(userIds) ==
    \E i \in Calls, userId \in userIds, id \in StoredIds :
        /\ MayCall(i)
        /\ pending' = [pending EXCEPT ![i] =
               [NoCall EXCEPT !.pc = "get", !.op = "delete", !.userId = userId,
                              !.id = JStr(id)]]
        /\ UNCHANGED <<now, kv, memoryStorage, client, resp, disk, tasks>>

\* what a call does from the moment kv.get settles up to its kv.set: the
\* adapter's function run against the stores as they are now, with a kv.set
\* that has not yet written.  userEntries is what that kv.set would store
Continued(call, i, kvGetOk) ==
    LET env == [kvGetOk |-> kvGetOk, kvSetOk |-> TRUE, rnd |-> RandomSuffix(i),
                lag |-> 0]
        out == IF call.op = "create"
               THEN createUserEntry(call.userId, call.req.title, call.req.content,
                                    call.req.attachments, env)
                        @@ [found |-> TRUE]
               ELSE IF call.op = "update"
               THEN updateUserEntry(call.userId, call.id, call.req.title,
                                    call.req.content, call.req.attachments, env)
               ELSE deleteUserEntry(call.userId, call.id, env)
    IN  [found |-> out.found, entry |-> out.entry, mem |-> out.mem,
         userEntries |-> IF out.found
                         THEN out.kv[getUserStorageKey(call.userId)] ELSE <<>>]

\* kv.get of a call settles, with a value or with an error; the call reads
\* on from memory after an error, makes its change, returns null when it
\* found no entry, and otherwise starts kv.set
KvGetSettles ==
    \E i \in Calls, kvGetOk \in BOOLEAN :
        /\ pending[i].pc = "get"
        /\ LET out == Continued(pending[i], i, kvGetOk)
           IN  /\ Len(out.userEntries) <= MaxEntries
               /\ memoryStorage' = out.mem
               /\ pending' = [pending EXCEPT ![i] =
                      [@ EXCEPT !.pc = IF out.found THEN "set" ELSE "done",
                                !.found = out.found, !.entry = out.entry,
                                !.userEntries = out.userEntries,
                                !.failed = ~kvGetOk,
                                !.readAt = Resolved + 1]]
        /\ UNCHANGED <<now, kv, client, resp, disk, tasks>>

\* kv.set of a call settles; after an error the call stores its array in
\* memory instead
KvSetSettles ==
    \E i \in Calls, kvSetOk \in BOOLEAN :
        /\ pending[i].pc = "set"
        /\ LET saved == saveUserEntries(pending[i].userId, pending[i].userEntries,
                                        kvSetOk, memoryStorage)
           IN  /\ kv' = saved.kv
               /\ memoryStorage' = saved.mem
        /\ pending' = [pending EXCEPT ![i] =
               [@ EXCEPT !.pc = "done", !.failed = @ \/ ~kvSetOk,
                         !.savedAt = Resolved + 1,
                         !.savedTo = IF kvSetOk THEN "vercel-kv" ELSE "memory"]]
        /\ UNCHANGED <<now, client, resp, disk, tasks>>

-----------------------------------------------------------------------------
\* resp.user is the user of the request's session in a /content response
\* (undefined when verifySessionToken gave no session), and the
\* user returned in an auth response; resp.at is the clock when the request
\* was authenticated
NoResponse ==
    [method |-> "none", client |-> 0, req |-> NoRequest, at |-> StartTime,
     user |-> Undefined, profile |-> NoProfile, token |-> Undefined, status |-> 0,
     entries |-> <<>>, count |-> 0, entry |-> NoEntry, prior |-> NoEntry,
     calls |-> <<>>, storage |-> "none", isGlobal |-> FALSE]

InitApp ==
    /\ now = StartTime
    /\ kv = [k \in {} |-> <<>>]
    /\ memoryStorage = [k \in {} |-> <<>>]
    /\ client = [c \in Clients |-> LoggedOut]
    /\ resp = NoResponse

\* no request of the file-backed variants has come, and data/ is empty
Init ==
    /\ InitApp
    /\ disk = StartDisk("safe", "missing")
    /\ tasks = NoTasks
    /\ pending = NoCalls

\* a note the remote store holds from before the process started
StoredNote(userId, suffix) ==
    [id |-> DecimalString(StartTime - 1) \o suffix,
     title |-> Rep("s", 1), content |-> Rep("s", 1),
     createdAt |-> toISOString(StartTime - 1), updatedAt |-> toISOString(StartTime - 1),
     userId |-> JStr(userId), attachments |-> <<>>]

\* the remote store holds, under the key of the first user, a note of the
\* second user in front of a note of the first
InitForeign ==
    /\ now = StartTime
    /\ kv = [k \in {getUserStorageKey(JStr(USERS[1].id))} |->
                <<StoredNote(USERS[2].id, <<"f">>), StoredNote(USERS[1].id, <<"o">>)>>]
    /\ memoryStorage = [k \in {} |-> <<>>]
    /\ client = [c \in Clients |-> LoggedOut]
    /\ resp = NoResponse
    /\ disk = StartDisk("safe", "missing")
    /\ tasks = NoTasks
    /\ pending = NoCalls

\* the file-backed variants start with either route and any data/ directory
InitDataFile ==
    /\ InitApp
    /\ disk \in {StartDisk(variant, start) : variant \in {"safe", "plain"},
                                             start \in {"missing", "corrupt", "seeded"}}
    /\ tasks = NoTasks
    /\ pending = NoCalls

\* the milliseconds and the long jumps the clock has made since StartTime
\* the clock only moves by single milliseconds and by jumps of one
\* millisecond less than a session's life
LongWait == SESSION_DURATION - 1
MsPassed == (now - StartTime) % LongWait
JumpsMade == (now - StartTime) \div LongWait

\* a millisecond passes
Tick ==
    /\ MsPassed < MaxMs
    /\ now' = now + 1
    /\ UNCHANGED <<kv, memoryStorage, client, resp, disk, tasks, pending>>

\* all but the last millisecond of a session's life passes
Elapse ==
    /\ JumpsMade < MaxJumps
    /\ now' = now + LongWait
    /\ UNCHANGED <<kv, memoryStorage, client, resp, disk, tasks, pending>>

AuthResponse(method, c, body, out) ==
    [method |-> method, client |-> c, req |-> body, at |-> now,
     user |-> out.user, profile |-> out.profile, token |-> out.token,
     status |-> out.status,
     entries |-> <<>>, count |-> 0, entry |-> NoEntry, prior |-> NoEntry,
     calls |-> <<>>, storage |-> "none", isGlobal |-> FALSE]

\* a browser posts credentials and keeps the token of a successful login
LoginReq(C, credentials) ==
    \E c \in C : \E body \in credentials[c] :
        \E out \in {LOGIN(body)} :
            /\ resp' = AuthResponse("LOGIN", c, body, out)
            /\ client' = IF out.status = 200
                         THEN [client EXCEPT ![c].authToken = out.token,
                                              ![c].currentUser = out.user,
                                              ![c].issuedAt = now]
                         ELSE client
            /\ UNCHANGED <<now, kv, memoryStorage, disk, tasks, pending>>

\* what verifySessionToken returns for the token of a request (the handlers
\* call it only for a token that is not falsy)
SessionOf(token) ==
    IF token.t = "string" /\ Len(token.v) > 0 THEN verifySessionToken(token.v, now)
    ELSE Null

\* a browser posts a token to /api/auth/verify
VerifyReq(C, tokens) ==
    \E c \in C : \E token \in tokens[c] \cup {client[c].authToken} :
        \E session \in {SessionOf(token)} :
            LET body == [token |-> token]
            IN  /\ resp' = AuthResponse("VERIFY", c, body, VERIFY(body, session))
                /\ UNCHANGED <<now, kv, memoryStorage, client, disk, tasks, pending>>

\* a browser posts a token to the verify handler that consults the directory
VerifyDirectoryReq(C, tokens) ==
    \E c \in C : \E token \in tokens[c] \cup {client[c].authToken} :
        \E session \in {SessionOf(token)} :
            LET body == [token |-> token]
            IN  /\ resp' = AuthResponse("VERIFY_DIRECTORY", c, body,
                                        VERIFY_DIRECTORY(body, session))
                /\ UNCHANGED <<now, kv, memoryStorage, client, disk, tasks, pending>>

ContentResponse(method, c, body, session, out) ==
    [method |-> method, client |-> c, req |-> body, at |-> now,
     user |-> IF Falsy(session) THEN Undefined ELSE Prop(session, K_userId),
     profile |-> NoProfile,
     token |-> Undefined, status |-> out.status,
     entries |-> out.entries, count |-> out.count, entry |-> out.entry,
     prior |-> out.prior, calls |-> out.calls, storage |-> out.storage,
     isGlobal |-> out.isGlobal]

\* the model's bounds on what a handler leaves behind
WithinBounds(out) ==
    /\ out.now - now <= MaxMs - MsPassed
    /\ \A k \in DOMAIN out.kv : Len(out.kv[k]) <= MaxEntries
    /\ \A k \in DOMAIN out.mem : Len(out.mem[k]) <= MaxEntries

\* the handler's response becomes the last response, and the stores and the
\* clock become what the handler left
Handled(method, c, body, session, out) ==
    /\ WithinBounds(out)
    /\ now' = out.now
    /\ kv' = out.kv
    /\ memoryStorage' = out.mem
    /\ resp' = ContentResponse(method, c, body, session, out)
    /\ UNCHANGED <<client, disk, tasks, pending>>

\* the random suffixes Math.random().toString(36).substr(2, 9) may yield
OneSuffix == {<<"k">>}
TwoSuffixes == {<<"k">>, <<"z">>}

GetEnvs == [kvGetOk : BOOLEAN, pingOk : BOOLEAN]
SaveEnvs == [kvGetOk : BOOLEAN, kvSetOk : BOOLEAN]
CreateEnvs(rnds, lags) == [kvGetOk : BOOLEAN, kvSetOk : BOOLEAN, rnd : rnds, lag : lags]

\* the ids a request may name: those of the stored entries (of any user),
\* none, and one that no entry has
UnknownId == <<"0">>
IdInputs == {JStr(id) : id \in StoredIds \cup {UnknownId}} \cup {Undefined}

GetReq(C, tokens) ==
    \E c \in C : \E token \in tokens[c] \cup {client[c].authToken} :
        \E session \in {SessionOf(token)} : \E env \in GetEnvs :
            \E out \in {GET(token, session, env)} :
                Handled("GET", c, [token |-> token], session, out)

\* Math.random() is taken never to repeat an id that is in use
PostReq(C, tokens, notes, rnds, lags) ==
    \E c \in C : \E token \in tokens[c] \cup {client[c].authToken} :
        \E session \in {SessionOf(token)} : \E note \in notes : \E env \in CreateEnvs(rnds, lags) :
            LET body == [token |-> token, title |-> note.title,
                         content |-> note.content, attachments |-> note.attachments]
            IN  \E out \in {POST(body, session, env)} :
                    /\ out.status = 200 => out.entry.id \notin StoredIds
                    /\ Handled("POST", c, body, session, out)

PutReq(C, tokens, notes) ==
    \E c \in C : \E token \in tokens[c] \cup {client[c].authToken} :
        \E session \in {SessionOf(token)} :
            \E id \in IdInputs : \E note \in notes : \E env \in SaveEnvs :
                LET body == [token |-> token, id |-> id, title |-> note.title,
                             content |-> note.content, attachments |-> note.attachments]
                IN  \E out \in {PUT(body, session, env)} :
                        Handled("PUT", c, body, session, out)

DeleteReq(C, tokens) ==
    \E c \in C : \E token \in tokens[c] \cup {client[c].authToken} :
        \E session \in {SessionOf(token)} : \E id \in IdInputs : \E env \in SaveEnvs :
            LET body == [token |-> token, id |-> id]
            IN  \E out \in {DELETE(body, session, env)} :
                    Handled("DELETE", c, body, session, out)

-----------------------------------------------------------------------------
(* The form of a new note in the browser (src/unnamed/part_000).           *)

MaxFiles == 5
MaxFileSize == 5 * 1024 * 1024

\* a file the user selects, and the attachment made of it
File(name, size) == [filename |-> name, size |-> size]

\* the form after handleFileSelect(files) with isEdit false; readOk: whether
\* fileToBase64 reads every file
handleFileSelect(prev, files, readOk) ==
    IF Len(files) = 0 THEN prev
    ELSE IF Len(files) > MaxFiles THEN [prev EXCEPT !.fileError = "Maximum 5 files allowed"]
    ELSE IF \E i \in 1..Len(files) : files[i].size > MaxFileSize
         THEN [prev EXCEPT !.fileError = "too large"]
    ELSE IF ~readOk THEN [prev EXCEPT !.fileError = "Failed to process"]
    ELSE [prev EXCEPT !.attachments = @ \o files, !.fileError = ""]

\* the user selects files for the new note
FileSelect(C, selections) ==
    \E c \in C : \E files \in selections : \E readOk \in BOOLEAN :
        /\ Len(client[c].newEntry.attachments) + Len(files) <= MaxFormFiles
        /\ client' = [client EXCEPT ![c].newEntry = handleFileSelect(@, files, readOk)]
        /\ UNCHANGED <<now, kv, memoryStorage, resp, disk, tasks, pending>>

\* createEntry: the browser posts the form with its attachments and empties
\* the form when the answer is a success (the list it then fetches changes
\* nothing that is kept here)
CreateEntryReq(C, notes, rnds) ==
    \E c \in C : \E session \in {SessionOf(client[c].authToken)} :
        \E note \in notes : \E env \in CreateEnvs(rnds, {0}) :
            LET body == [token |-> client[c].authToken,
                         title |-> JStr(TextTrim(note.title.v)),
                         content |-> JStr(TextTrim(note.content.v)),
                         attachments |-> JArr(client[c].newEntry.attachments)]
            IN  \E out \in {POST(body, session, env)} :
                    /\ ~Falsy(client[c].authToken)
                    /\ out.status = 200 => out.entry.id \notin StoredIds
                    /\ WithinBounds(out)
                    /\ now' = out.now
                    /\ kv' = out.kv
                    /\ memoryStorage' = out.mem
                    /\ resp' = ContentResponse("POST", c, body, session, out)
                    /\ client' = IF out.status = 200
                                 THEN [client EXCEPT ![c].newEntry = EmptyForm]
                                 ELSE client
                    /\ UNCHANGED <<disk, tasks, pending>>

-----------------------------------------------------------------------------
(* The page in the browser: src/unnamed/part_000 and src/app/page.tsx.     *)
(* The two differ in what they send to /api/content: part_000 sends the    *)
(* session token with every request, page.tsx sends none.  A request of    *)
(* verifyToken or fetchEntries is in flight from the call of fetch to the  *)
(* continuation after its await; the server answers it in between, here at *)
(* the moment the continuation runs.                                       *)

\* encodeURIComponent on the characters of a base64 text: letters and digits
\* stay, the other three are escaped
encodeURIComponent(s) ==
    LET escaped(ch) == IF ch = "+" THEN <<"%", "2", "B">>
                       ELSE IF ch = "/" THEN <<"%", "2", "F">>
                       ELSE IF ch = "=" THEN <<"%", "3", "D">>
                       ELSE <<ch, "none", "none">>
        slots == Listed([k \in 1..(3 * Len(s)) |->
                            escaped(s[((k - 1) \div 3) + 1])[((k - 1) % 3) + 1]])
    IN  SelectSeq(slots, LAMBDA ch : ch # "none")

HexDigits == <<"0", "1", "2", "3", "4", "5", "6", "7", "8", "9", "A", "B", "C", "D", "E", "F">>
HexValue(ch) == (CHOOSE i \in 1..Len(HexDigits) : HexDigits[i] = ch) - 1

\* url.searchParams.get of a parameter with the given raw value, in which
\* every % is followed by two hexadecimal digits: a plus sign is a blank and
\* %XX is the character of code XX
searchParamsGet(raw) ==
    LET escapes(i) == i >= 1 /\ i + 2 <= Len(raw) /\ raw[i] = "%"
        units == Listed([i \in 1..Len(raw) |->
                    IF escapes(i - 1) \/ escapes(i - 2) THEN "none"
                    ELSE IF escapes(i)
                    THEN AsciiChars[16 * HexValue(raw[i + 1]) + HexValue(raw[i + 2]) - 31]
                    ELSE IF raw[i] = "+" THEN " "
                    ELSE raw[i]])
    IN  SelectSeq(units, LAMBDA ch : ch # "none")

\* the token the GET handler finds in the URL fetchEntries requests
UrlToken(page, authToken) ==
    IF page = "part_000" THEN JStr(searchParamsGet(encodeURIComponent(authToken.v)))
    ELSE Null

\* the token in the body createEntry, updateEntry and deleteEntry post
BodyToken(page, authToken) == IF page = "part_000" THEN authToken ELSE Undefined

\* the page shows the login form; the page shows the notes, with the
\* buttons to refresh, to save and to log out
ShowsLoginForm(c) == Falsy(client[c].authToken) \/ Falsy(client[c].currentUser)
ShowsNotes(c) == ~ShowsLoginForm(c) /\ ~client[c].isLoading

Verifying(token) == [kind |-> "verify", token |-> token]
Fetching(token) == [kind |-> "fetch", token |-> token]

\* handleLogin(token), up to the await of verifyToken
handleLogin(prev, token) ==
    [prev EXCEPT !.localStorage = token, !.inflight = @ \cup {Verifying(token)}]

handleLogout(prev) ==
    [prev EXCEPT !.localStorage = Null, !.authToken = Null, !.currentUser = Null,
                 !.entries = <<>>]

\* the login form posts credentials and hands the token of a successful
\* login to handleLogin
LoginFormSubmit(C, credentials) ==
    \E c \in C : \E body \in credentials[c] :
        \E out \in {LOGIN(body)} :
            /\ ShowsLoginForm(c)
            /\ resp' = AuthResponse("LOGIN", c, body, out)
            /\ client' = IF out.status = 200 /\ ~Falsy(out.token)
                         THEN [client EXCEPT ![c] = handleLogin(@, out.token)]
                         ELSE client
            /\ UNCHANGED <<now, kv, memoryStorage, disk, tasks, pending>>

\* verifyToken from its await on: the verify handler answers, or the request
\* fails; after a success the effect of the page starts fetchEntries with
\* the token now in authToken
VerifyAnswered(C) ==
    \E c \in C : \E r \in client[c].inflight : \E answered \in BOOLEAN :
        LET body == [token |-> r.token]
            out == VERIFY(body, SessionOf(r.token))
            rest == client[c].inflight \ {r}
        IN  /\ r.kind = "verify"
            /\ resp' = IF answered THEN AuthResponse("VERIFY", c, body, out) ELSE resp
            /\ client' = [client EXCEPT ![c] =
                   IF answered /\ out.status = 200
                   THEN [@ EXCEPT !.authToken = r.token, !.currentUser = out.user,
                                  !.localStorage = r.token,
                                  !.inflight = rest \cup {Fetching(r.token)}]
                   ELSE [@ EXCEPT !.authToken = Null, !.currentUser = Null,
                                  !.localStorage = Null, !.inflight = rest]]
            /\ UNCHANGED <<now, kv, memoryStorage, disk, tasks, pending>>

\* the refresh button calls fetchEntries
Refresh(C) ==
    \E c \in C :
        /\ ShowsNotes(c)
        /\ client' = [client EXCEPT ![c].inflight = @ \cup {Fetching(client[c].authToken)}]
        /\ UNCHANGED <<now, kv, memoryStorage, resp, disk, tasks, pending>>

\* fetchEntries from its await on: the GET handler answers, and the page
\* shows the entries of a success
FetchAnswered(C) ==
    \E c \in C : \E r \in client[c].inflight : \E env \in GetEnvs :
        LET token == UrlToken(client[c].page, r.token)
            session == SessionOf(token)
            out == GET(token, session, env)
        IN  /\ r.kind = "fetch"
            /\ resp' = ContentResponse("GET", c, [token |-> token], session, out)
            /\ client' = [client EXCEPT ![c] =
                   [@ EXCEPT !.entries = IF out.status = 200 THEN out.entries ELSE @,
                             !.isLoading = FALSE,
                             !.inflight = client[c].inflight \ {r}]]
            /\ UNCHANGED <<now, kv, memoryStorage, disk, tasks, pending>>

\* the logout button calls handleLogout
Logout(C) ==
    \E c \in C :
        /\ ShowsNotes(c)
        /\ client' = [client EXCEPT ![c] = handleLogout(@)]
        /\ UNCHANGED <<now, kv, memoryStorage, resp, disk, tasks, pending>>

\* what a save of the page leaves: the handler's answer, and after a success
\* fetchEntries under way
Saved(method, c, body, session, out) ==
    /\ WithinBounds(out)
    /\ now' = out.now
    /\ kv' = out.kv
    /\ memoryStorage' = out.mem
    /\ resp' = ContentResponse(method, c, body, session, out)
    /\ client' = IF out.status = 200
                 THEN [client EXCEPT ![c].inflight = @ \cup {Fetching(client[c].authToken)}]
                 ELSE client
    /\ UNCHANGED <<disk, tasks, pending>>

\* createEntry of the page, with a valid form and no attachment
createEntry(C, notes, rnds) ==
    \E c \in C : \E note \in notes : \E env \in CreateEnvs(rnds, {0}) :
        LET body == [token |-> BodyToken(client[c].page, client[c].authToken),
                     title |-> JStr(TextTrim(note.title.v)),
                     content |-> JStr(TextTrim(note.content.v)),
                     attachments |-> IF client[c].page = "part_000"
                                     THEN JArr(<<>>) ELSE Undefined]
            session == SessionOf(body.token)
        IN  \E out \in {POST(body, session, env)} :
                /\ ShowsNotes(c)
                /\ out.status = 200 => out.entry.id \notin StoredIds
                /\ Saved("POST", c, body, session, out)

\* updateEntry(id) of the page for an entry it shows
updateEntry(C, notes) ==
    \E c \in C : \E note \in notes : \E env \in SaveEnvs :
        \E n \in 1..Len(client[c].entries) :
            LET body == [token |-> BodyToken(client[c].page, client[c].authToken),
                         id |-> JStr(client[c].entries[n].id),
                         title |-> JStr(TextTrim(note.title.v)),
                         content |-> JStr(TextTrim(note.content.v)),
                         attachments |-> IF client[c].page = "part_000"
                                         THEN JArr(client[c].entries[n].attachments)
                                         ELSE Undefined]
                session == SessionOf(body.token)
            IN  \E out \in {PUT(body, session, env)} :
                    /\ ShowsNotes(c)
                    /\ Saved("PUT", c, body, session, out)

\* deleteEntry(id) of the page for an entry it shows, the user confirming
deleteEntry(C) ==
    \E c \in C : \E env \in SaveEnvs :
        \E n \in 1..Len(client[c].entries) :
            LET body == [token |-> BodyToken(client[c].page, client[c].authToken),
                         id |-> JStr(client[c].entries[n].id)]
                session == SessionOf(body.token)
            IN  \E out \in {DELETE(body, session, env)} :
                    /\ ShowsNotes(c)
                    /\ Saved("DELETE", c, body, session, out)

-----------------------------------------------------------------------------
(* The inputs of the specifications.                                       *)

U_admin == <<"A", "d", "m", "i", "n">>
P_admin == <<"a", "d", "m", "i", "n", "1", "2", "3">>
U_john == <<" ", "j", "o", "h", "n", " ">>
P_john == <<"j", "o", "h", "n", "1", "2", "3">>
U_nobody == <<"n", "o", "b", "o", "d", "y">>

Cred(u, p) == [username |-> u, password |-> p]

\* what each browser types into the login form
Credentials ==
    [c \in Clients |->
        IF c = 1 THEN {Cred(JStr(U_admin), JStr(P_admin)), Cred(JStr(U_admin), JStr(P_john))}
        ELSE {Cred(JStr(U_john), JStr(P_john)), Cred(JStr(U_john), Undefined)}]

AllCredentials ==
    [c \in Clients |->
        Credentials[c] \cup {Cred(JStr(U_nobody), JStr(P_admin)), Cred(Undefined, JStr(P_admin)),
                             Cred(JStr(<<>>), JStr(P_admin))}]

\* a token that is no base64 of a JSON text, and a token of the administrator
\* issued at the epoch
GarbageToken == <<"a", "b", "c", "d">>
StaleToken == createSessionToken(USERS[1], 0)
BadTokens == {Undefined, JStr(GarbageToken), JStr(StaleToken)}

\* tokens nobody issued: the base64 of the JSON text of a record without
\* expiresAt, of a record without userId, of a record of a user the directory
\* does not hold, and of a JSON number
EncodeRecord(userId, username, expiresAt) ==
    Base64Encode(Utf8Encode(JSONStringify(
        << <<K_userId, userId>>, <<K_username, username>>,
           <<K_role, JStr(USERS[1].role)>>, <<K_name, JStr(USERS[1].name)>>,
           <<K_expiresAt, expiresAt>> >>)))
FarFuture == 4 * SESSION_DURATION
NoExpiryToken == EncodeRecord(JStr(USERS[1].id), JStr(USERS[1].username), Undefined)
NoUserIdToken == EncodeRecord(Undefined, JStr(USERS[1].username), JNum(FarFuture))
GhostId == <<"9", "9">>
GhostToken == EncodeRecord(JStr(GhostId), JStr(U_nobody), JNum(FarFuture))
NumberToken == Base64Encode(Utf8Encode(<<"5">>))
ForgedTokens == {JStr(NoExpiryToken), JStr(NoUserIdToken), JStr(GhostToken), JStr(NumberToken)}

\* the tokens a browser sends besides its own: none, or the bad ones from the
\* second browser
OwnToken == [c \in Clients |-> {}]
AnyToken == [c \in Clients |-> IF c = 2 THEN BadTokens ELSE {}]
AuthTokens == [c \in Clients |-> IF c = 2 THEN BadTokens \cup ForgedTokens ELSE {}]

Note(title, content) == [title |-> title, content |-> content, attachments |-> Undefined]

\* the notes of the specifications that do not look at the limits
PlainNotes == {Note(JStr(Rep("t", 1)), JStr(Rep("c", 1)))}

\* the notes of the specification of the limits: texts at and past the
\* limits, a title of blanks, a title that is a number and a missing title
NoteInputs ==
    { Note(JStr(Rep("a", MaxTitleLength)), JStr(Rep("b", MaxContentLength))),
      Note(JNum(7), JStr(Rep("b", MaxContentLength))),
      Note(Undefined, JStr(Rep("b", MaxContentLength))),
      Note(JStr(Rep("a", MaxTitleLength + 1)), JStr(Rep("b", MaxContentLength))),
      Note(JStr(Rep("a", MaxTitleLength)), JStr(Rep("b", MaxContentLength + 1))),
      Note(JStr(Rep(" ", 2)), JStr(Rep("b", MaxContentLength))) }

\* the files a user selects at once: none, three, six, and one that is too
\* large
SmallFiles(n) == [i \in 1..n |-> File(i, 1024)]
Selections == {SmallFiles(0), SmallFiles(3), SmallFiles(6), <<File(1, MaxFileSize + 1)>>}

\* the notes a request may carry with attachments: five and six of them
FileNotes ==
    {[title |-> JStr(Rep("t", 1)), content |-> JStr(Rep("c", 1)),
      attachments |-> JArr(SmallFiles(n))] : n \in {5, 6}}

\* a note created with one attachment, and the notes an update may carry:
\* without the attachments property, with an empty list, and with another
\* attachment
AttachedNotes == {[n EXCEPT !.attachments = JArr(<<File(1, 1024)>>)] : n \in PlainNotes}
EditedNotesWith ==
    PlainNotes \cup {[n EXCEPT !.attachments = JArr(files)] :
                        n \in PlainNotes, files \in {<<>>, <<File(2, 1024)>>}}

-----------------------------------------------------------------------------
(* The specifications.                                                     *)

\* one user working on the notes while the remote store comes and goes and
\* the clock moves inside a create
Next ==
    \/ Tick
    \/ LoginReq({1}, Credentials)
    \/ GetReq({1}, OwnToken)
    \/ PostReq({1}, OwnToken, PlainNotes, OneSuffix, {0, 1})
    \/ PutReq({1}, OwnToken, PlainNotes)
    \/ DeleteReq({1}, OwnToken)

Spec == Init /\ [][Next]_vars

\* one user sending texts at and past the limits, and blank texts, within
\* one millisecond
NextLimits ==
    \/ LoginReq({1}, Credentials)
    \/ GetReq({1}, OwnToken)
    \/ PostReq({1}, OwnToken, NoteInputs, TwoSuffixes, {0})
    \/ PutReq({1}, OwnToken, NoteInputs)
    \/ DeleteReq({1}, OwnToken)

SpecLimits == Init /\ [][NextLimits]_vars

\* two users within one millisecond, every kind of token
NextUsers ==
    \/ LoginReq(Clients, Credentials)
    \/ GetReq(Clients, AnyToken)
    \/ PostReq(Clients, AnyToken, PlainNotes, TwoSuffixes, {0})
    \/ PutReq(Clients, AnyToken, PlainNotes)
    \/ DeleteReq(Clients, AnyToken)

SpecUsers == Init /\ [][NextUsers]_vars

\* the session codec alone: logins and verifications while the clock runs
\* up to and past the expiry of the tokens
NextAuth ==
    \/ Tick
    \/ Elapse
    \/ LoginReq(Clients, AllCredentials)
    \/ VerifyReq(Clients, AuthTokens)
    \/ VerifyDirectoryReq(Clients, AuthTokens)

SpecAuth == Init /\ [][NextAuth]_vars

\* one user attaching files: selections in the form, the form posted, and
\* requests that carry attachments of their own
NextFiles ==
    \/ LoginReq({1}, Credentials)
    \/ FileSelect({1}, Selections)
    \/ CreateEntryReq({1}, PlainNotes, OneSuffix)
    \/ PostReq({1}, OwnToken, FileNotes, OneSuffix, {0})
    \/ PutReq({1}, OwnToken, FileNotes)
    \/ GetReq({1}, OwnToken)

SpecFiles == Init /\ [][NextFiles]_vars

\* the routes over a remote store that holds another user's note under the
\* caller's key
NextForeign ==
    \/ LoginReq({1}, Credentials)
    \/ GetReq({1}, OwnToken)
    \/ PostReq({1}, OwnToken, PlainNotes, OneSuffix, {0})
    \/ PutReq({1}, OwnToken, PlainNotes)
    \/ DeleteReq({1}, OwnToken)

SpecForeign == InitForeign /\ [][NextForeign]_vars

\* the remote store holds a note of the first user, or none, from before the
\* process started
InitAdapter ==
    /\ now = StartTime
    /\ kv \in {[k \in {} |-> <<>>],
                [k \in {getUserStorageKey(JStr(USERS[1].id))} |->
                    <<StoredNote(USERS[1].id, <<"o">>)>>]}
    /\ memoryStorage = [k \in {} |-> <<>>]
    /\ client = [c \in Clients |-> LoggedOut]
    /\ resp = NoResponse
    /\ disk = StartDisk("safe", "missing")
    /\ tasks = NoTasks
    /\ pending = NoCalls

\* the bodies of two edits of one note: one with a list of attachments, one
\* without any, and no text in common
ConcurrentEdits ==
    {[title |-> JStr(Rep("a", 1)), content |-> JStr(Rep("a", 1)),
      attachments |-> JArr(<<File(1, 1024)>>)],
     Note(JStr(Rep("b", 1)), JStr(Rep("b", 1)))}

\* the calls of one user's requests, their awaits settling in any order
NextAdapter ==
    \/ CallCreate({JStr(USERS[1].id)}, PlainNotes)
    \/ CallUpdate({JStr(USERS[1].id)}, ConcurrentEdits)
    \/ CallDelete({JStr(USERS[1].id)})
    \/ KvGetSettles
    \/ KvSetSettles

SpecAdapter == InitAdapter /\ [][NextAdapter]_vars

\* the page of the first browser, either component, mounted with no token
\* in localStorage
InitPage ==
    /\ now = StartTime
    /\ kv = [k \in {} |-> <<>>]
    /\ memoryStorage = [k \in {} |-> <<>>]
    /\ client \in {[c \in Clients |-> [LoggedOut EXCEPT !.page = page]] :
                      page \in {"part_000", "page.tsx"}}
    /\ resp = NoResponse
    /\ disk = StartDisk("safe", "missing")
    /\ tasks = NoTasks
    /\ pending = NoCalls

NextPage ==
    \/ LoginFormSubmit({1}, Credentials)
    \/ VerifyAnswered({1})
    \/ Refresh({1})
    \/ FetchAnswered({1})
    \/ Logout({1})
    \/ createEntry({1}, PlainNotes, OneSuffix)
    \/ updateEntry({1}, PlainNotes)
    \/ deleteEntry({1})

SpecPage == InitPage /\ [][NextPage]_vars

\* creates and updates with and without attachments
NextEdits ==
    \/ LoginReq({1}, Credentials)
    \/ PostReq({1}, OwnToken, AttachedNotes, TwoSuffixes, {0})
    \/ PutReq({1}, OwnToken, EditedNotesWith)

SpecEdits == Init /\ [][NextEdits]_vars

\* the notes of the file-backed variants: a note, and a note with a blank
\* title
DataFileNotes == PlainNotes \cup {Note(JStr(Rep(" ", 1)), JStr(Rep("c", 1)))}
EditedNotes == {Note(JStr(Rep("u", 2)), JStr(Rep("c", 1)))}

\* the ids a request may name: those of the entries of the data file, and
\* one of no entry
DataFileIds ==
    {JStr(id) : id \in {DataFile(disk).entries[i].id :
                            i \in 1..(IF DataFile(disk).t = "doc"
                                      THEN Len(DataFile(disk).entries) ELSE 0)}
                        \cup {UnknownId}}

\* the file-backed variants under concurrent requests
NextDataFile ==
    \/ FileGET(Tasks)
    \/ FilePOST(Tasks, DataFileNotes)
    \/ FilePUT(Tasks, DataFileIds, EditedNotes)
    \/ FileDELETE(Tasks, DataFileIds)
    \/ ReadStep(Tasks)
    \/ InitOpen(Tasks)
    \/ InitWrite(Tasks)
    \/ TmpOpen(Tasks)
    \/ TmpWrite(Tasks)
    \/ Rename(Tasks)
    \/ Cleanup(Tasks)
    \/ DataOpen(Tasks)
    \/ DataWrite(Tasks)

SpecDataFile == InitDataFile /\ [][NextDataFile]_vars

-----------------------------------------------------------------------------
(* Properties of the session codec, checked under SpecAuth.                *)

\* the last response answers a verification of the token the browser got
\* from its last login
VerifiedOwnToken ==
    /\ resp.method = "VERIFY"
    /\ resp.req.token.t = "string"
    /\ StrictEq(resp.req.token, client[resp.client].authToken)

\* the expiry of the token the browser holds
OwnExpiry == client[resp.client].issuedAt + SESSION_DURATION

\* C1: a token that login issued for user U, verified before its expiry,
\* yields a session whose userId is U's id; verified after its expiry it is
\* rejected.  A token issued a day and more ago is rejected as well.
C1_RoundTrip ==
    /\ VerifiedOwnToken =>
        /\ resp.at < OwnExpiry =>
              resp.status = 200 /\ StrictEq(resp.user, client[resp.client].currentUser)
        /\ resp.at > OwnExpiry => resp.status = 401
    /\ (resp.method = "VERIFY" /\ resp.req.token = JStr(StaleToken)) => resp.status = 401

\* the directory ids of the users a browser may be logged in as
DirectoryIds == {JStr(USERS[i].id) : i \in 1..Len(USERS)}

\* C1 witness: a verification one millisecond before the expiry succeeded
\* with the id of the directory user
C1_Witness ==
    /\ VerifiedOwnToken
    /\ resp.at = OwnExpiry - 1
    /\ resp.status = 200
    /\ resp.user \in DirectoryIds
    /\ StrictEq(resp.user, JStr(USERS[2].id))

-----------------------------------------------------------------------------
(* Properties of the isolation of users, checked under SpecUsers.          *)

\* the last response answers a request on /api/content
ContentMethods == {"GET", "POST", "PUT", "DELETE"}

\* C2: the entries GET returns under a session of user B all carry B's id:
\* none of them is an entry another user created
C2_OnlyOwnEntries ==
    (resp.method = "GET" /\ resp.status = 200) =>
        \A i \in 1..Len(resp.entries) : StrictEq(resp.entries[i].userId, resp.user)

\* C2 witness: GET returned entries to one user while another user's
\* entries were stored
C2_Witness ==
    /\ resp.method = "GET" /\ resp.status = 200
    /\ Len(resp.entries) > 0
    /\ \E e \in StoredEntries : ~StrictEq(e.userId, resp.user)

\* the step is a PUT or DELETE of an authenticated user, well-formed, that
\* names the id of a stored entry of another user
NamesForeignId ==
    /\ resp'.method \in {"PUT", "DELETE"}
    /\ ~Falsy(resp'.user)
    /\ resp'.method = "PUT" =>
        /\ ~Falsy(resp'.req.title) /\ ~Falsy(resp'.req.content)
        /\ TextLen(resp'.req.title.v) <= MaxTitleLength
        /\ TextLen(resp'.req.content.v) <= MaxContentLength
    /\ \E e \in StoredEntries :
        /\ StrictEq(JStr(e.id), resp'.req.id)
        /\ ~StrictEq(e.userId, resp'.user)
    /\ ~\E e \in StoredEntries :
        /\ StrictEq(JStr(e.id), resp'.req.id)
        /\ StrictEq(e.userId, resp'.user)

\* C3: a PUT or DELETE by user B that names the id of an entry created by
\* user A is answered 404 and leaves both stores as they were
C3_ForeignIdNotFound ==
    [][NamesForeignId =>
        /\ resp'.status = 404
        /\ kv' = kv /\ memoryStorage' = memoryStorage]_vars

\* C3 witness: a PUT was answered 404 although an entry with the id it
\* named is stored, under another user
C3_Witness ==
    /\ resp.method = "PUT" /\ resp.status = 404
    /\ ~Falsy(resp.user)
    /\ \E e \in StoredEntries :
        StrictEq(JStr(e.id), resp.req.id) /\ ~StrictEq(e.userId, resp.user)

\* what verifySessionToken returns for the token of the last request at the
\* time of the request
SessionAtRequest ==
    IF resp.req.token.t = "string" /\ Len(resp.req.token.v) > 0
    THEN verifySessionToken(resp.req.token.v, resp.at)
    ELSE Null

\* C4: a request on /api/content whose token is absent, or is rejected by
\* verifySessionToken, is answered 401 without any access to a store
C4_RefusedBeforeStorage ==
    (resp.method \in ContentMethods /\ (Falsy(resp.req.token) \/ Falsy(SessionAtRequest))) =>
        resp.status = 401 /\ resp.calls = <<>>

\* C4 witness: a POST carrying an expired token was answered 401 while
\* entries were stored
C4_Witness ==
    /\ resp.method = "POST"
    /\ resp.req.token = JStr(StaleToken)
    /\ resp.status = 401
    /\ StoredEntries # {}

-----------------------------------------------------------------------------
(* Properties of the validation of texts, checked under SpecLimits.        *)

\* the step is a POST or PUT of an authenticated user carrying two strings
WritesTexts ==
    /\ resp'.method \in {"POST", "PUT"}
    /\ ~Falsy(resp'.user)
    /\ resp'.req.title.t = "string" /\ resp'.req.content.t = "string"

\* C5: a POST or PUT whose title is longer than 100 characters or whose
\* content is longer than 5000 is answered 400 and leaves both stores as they
\* were; a title of exactly 100 with a content of exactly 5000 is accepted
\* (a PUT may still meet an id it does not find)
C5_LengthLimits ==
    [][WritesTexts =>
        /\ (\/ TextLen(resp'.req.title.v) > 100
            \/ TextLen(resp'.req.content.v) > 5000) =>
                /\ resp'.status = 400
                /\ kv' = kv /\ memoryStorage' = memoryStorage
        /\ (/\ TextLen(resp'.req.title.v) = 100
            /\ TextLen(resp'.req.content.v) = 5000) =>
                /\ resp'.method = "POST" => resp'.status = 200
                /\ (resp'.method = "PUT" /\ ~Falsy(resp'.req.id)) => resp'.status \in {200, 404}
                /\ resp'.status = 200 =>
                    /\ TextLen(resp'.entry.title) = 100
                    /\ TextLen(resp'.entry.content) = 5000]_vars

\* C5 witness: a title of 101 characters was refused while an entry with a
\* title of exactly 100 and a content of exactly 5000 was stored
C5_Witness ==
    /\ resp.method \in {"POST", "PUT"} /\ resp.status = 400
    /\ ~Falsy(resp.user)
    /\ JsLength(resp.req.title) = 101
    /\ \E e \in StoredEntries : TextLen(e.title) = 100 /\ TextLen(e.content) = 5000

\* the last response answers a POST or PUT of an authenticated user with a
\* title or a content that is blank once trimmed
WroteBlank ==
    /\ resp.method \in {"POST", "PUT"}
    /\ ~Falsy(resp.user)
    /\ resp.req.title.t = "string" /\ resp.req.content.t = "string"
    /\ \/ TextLen(TextTrim(resp.req.title.v)) = 0
       \/ TextLen(TextTrim(resp.req.content.v)) = 0

\* C6: a POST or PUT whose title or content is blank after trimming is
\* answered 400, and no stored entry has an empty title or an empty content
C6_NoBlankTexts ==
    /\ WroteBlank => resp.status = 400
    /\ \A e \in StoredEntries : TextLen(e.title) > 0 /\ TextLen(e.content) > 0

-----------------------------------------------------------------------------
(* Properties of one user's create, update, delete and list, checked under *)
(* Spec.                                                                   *)

\* the step answers a request of the user whose POST or DELETE the last
\* response answered with success
FollowsSuccess(method) ==
    /\ resp.method = method /\ resp.status = 200
    /\ <<kv, memoryStorage, resp>>' # <<kv, memoryStorage, resp>>
    /\ StrictEq(resp'.user, resp.user)

\* C7: after a POST answered with success and entry E, the next GET of the
\* same user returns a list whose first element has E's id, and E's
\* createdAt equals E's updatedAt
C7_CreatedComesFirst ==
    [][(FollowsSuccess("POST") /\ resp'.method = "GET" /\ resp'.status = 200) =>
        /\ Len(resp'.entries) > 0
        /\ resp'.entries[1].id = resp.entry.id
        /\ resp.entry.createdAt = resp.entry.updatedAt
        /\ resp'.entries[1].createdAt = resp'.entries[1].updatedAt]_vars

\* the last response answers a PUT with success: resp.prior is the entry as
\* it was read, resp.entry the entry as it was written
Updated == resp.method = "PUT" /\ resp.status = 200

\* the fields an update leaves alone
SameIdentity(a, b) ==
    /\ a.id = b.id
    /\ a.createdAt = b.createdAt
    /\ StrictEq(a.userId, b.userId)

\* C8 as stated: a successful PUT sets updatedAt strictly later than the
\* previous updatedAt and leaves id, createdAt and userId as they were
C8_StrictlyLater ==
    Updated =>
        /\ IsoBefore(resp.prior.updatedAt, resp.entry.updatedAt)
        /\ SameIdentity(resp.entry, resp.prior)

\* C8 amended: a successful PUT sets updatedAt to the timestamp of the clock
\* at the update, leaves id, createdAt and userId as they were, and the
\* entry it returns is the one it stored
C8_StampedAtUpdate ==
    Updated =>
        /\ resp.entry.updatedAt = toISOString(resp.at)
        /\ SameIdentity(resp.entry, resp.prior)
        /\ StrictEq(resp.entry.userId, resp.user)
        /\ resp.entry \in StoredEntries

\* C8 witness: a successful PUT of an entry created in an earlier
\* millisecond, whose updatedAt became strictly later
C8_Witness ==
    /\ Updated
    /\ IsoBefore(resp.prior.updatedAt, resp.entry.updatedAt)
    /\ IsoBefore(resp.entry.createdAt, resp.entry.updatedAt)

\* C9: after a DELETE of id X answered with success, the next GET of the same
\* user returns a list without X, and a second DELETE of X is answered 404
C9_DeletedStaysDeleted ==
    [][FollowsSuccess("DELETE") =>
        /\ (resp'.method = "GET" /\ resp'.status = 200) =>
              \A i \in 1..Len(resp'.entries) : ~StrictEq(JStr(resp'.entries[i].id), resp.req.id)
        /\ (resp'.method = "DELETE" /\ StrictEq(resp'.req.id, resp.req.id)) =>
              resp'.status = 404]_vars

-----------------------------------------------------------------------------
(* The strictness of the expiry, checked under SpecAuth.                   *)

\* C10: a well-formed token is accepted if and only if its expiresAt is
\* strictly greater than the current time
C10_StrictExpiry ==
    VerifiedOwnToken => (resp.status = 200 <=> OwnExpiry > resp.at)

-----------------------------------------------------------------------------
(* Properties of the rejection of malformed tokens and of the auth routes, *)
(* checked under SpecAuth.                                                 *)

\* the token of the last request, decoded
DecodedRequestToken == JSONParse(Utf8Decode(Base64Decode(resp.req.token.v)))

\* the token of the last request decodes to a record with the five fields of
\* a session, expiresAt a number
DecodesToSession ==
    LET parsed == DecodedRequestToken
    IN  /\ parsed.ok
        /\ parsed.val.t = "object"
        /\ \A key \in {K_userId, K_username, K_role, K_name} :
              Prop(parsed.val, key).t = "string"
        /\ Prop(parsed.val, K_expiresAt).t = "number"

\* the last response answers a verification of a token that is a string
VerifiedString ==
    /\ resp.method = "VERIFY"
    /\ resp.req.token.t = "string" /\ Len(resp.req.token.v) > 0

\* C11: verifySessionToken returns null for every token that does not decode
\* to a record with userId, username, role, name and a numeric expiresAt
C11_MalformedIsInvalid ==
    (VerifiedString /\ ~DecodesToSession) =>
        /\ verifySessionToken(resp.req.token.v, resp.at) = Null
        /\ resp.status = 401

-----------------------------------------------------------------------------
(* Properties of the order of the checks of a request, checked under       *)
(* SpecLimits.                                                             *)

\* a text the validation rules accept: a string, not blank once trimmed,
\* within its limit
ValidText(val, limit) ==
    /\ val.t = "string"
    /\ TextLen(TextTrim(val.v)) > 0
    /\ TextLen(val.v) <= limit

\* the payload of the last request is valid for its method
ValidPayload ==
    /\ resp.method \in {"POST", "PUT"} =>
        /\ ValidText(resp.req.title, 100)
        /\ ValidText(resp.req.content, 5000)
    /\ resp.method \in {"PUT", "DELETE"} =>
        resp.req.id.t = "string" /\ Len(resp.req.id.v) > 0

\* the collection of the caller the last request read: the one in memory
\* when the read fell back to it, the remote one otherwise
CollectionRead ==
    LET storageKey == getUserStorageKey(resp.user)
        store == IF \E i \in 1..Len(resp.calls) : resp.calls[i] = "memory.get"
                 THEN memoryStorage ELSE kv
    IN  IF storageKey \in DOMAIN store THEN store[storageKey] ELSE <<>>

\* C12: a POST, PUT or DELETE resolves its status in the order authenticate,
\* validate, storage: 401 whenever the token is missing or invalid, whatever
\* the payload; 400 for a valid token with an invalid payload, whatever the
\* id; 404 only for a valid token and a valid payload whose id is not in the
\* caller's collection; 500 never for a bad or missing field
C12_StatusOrder ==
    resp.method \in {"POST", "PUT", "DELETE"} =>
        /\ Falsy(resp.user) => resp.status = 401
        /\ (~Falsy(resp.user) /\ ~ValidPayload) => resp.status = 400
        /\ resp.status = 404 =>
            /\ ~Falsy(resp.user) /\ ValidPayload
            /\ \A i \in 1..Len(CollectionRead) :
                  ~StrictEq(JStr(CollectionRead[i].id), resp.req.id)
        /\ resp.status = 500 => (~Falsy(resp.user) /\ ValidPayload)

-----------------------------------------------------------------------------
(* Properties of the fallback to the memory map, checked under Spec.       *)

\* the last response answers a request on /api/content that reached the
\* storage adapter
ReachedStorage ==
    /\ resp.method \in ContentMethods
    /\ resp.status \notin {400, 401}

\* the caller's collection in a store
CollectionIn(store) ==
    LET storageKey == getUserStorageKey(resp.user)
    IN  IF storageKey \in DOMAIN store THEN store[storageKey] ELSE <<>>

\* C13: every call of the storage adapter goes to the remote store first,
\* whatever earlier calls did; the memory map is used only right after the
\* remote call, the operation is then completed against the memory map, and
\* the request is answered 200 or 404, never 500
C13_RemoteFirst ==
    ReachedStorage =>
        /\ Len(resp.calls) > 0 /\ resp.calls[1] = "kv.get"
        /\ \A i \in 1..Len(resp.calls) :
            /\ resp.calls[i] = "memory.get" => (i > 1 /\ resp.calls[i - 1] = "kv.get")
            /\ resp.calls[i] = "memory.set" => (i > 1 /\ resp.calls[i - 1] = "kv.set")
        /\ resp.status \in {200, 404}
        /\ (resp.method = "GET" /\ resp.calls[2] = "memory.get") =>
              resp.entries = CollectionIn(memoryStorage)
        /\ (resp.method = "GET" /\ resp.calls[2] # "memory.get") =>
              resp.entries = CollectionIn(kv)
        /\ (resp.method \in {"POST", "PUT"} /\ resp.status = 200) =>
              IF resp.calls[Len(resp.calls)] = "memory.set"
              THEN \E i \in 1..Len(CollectionIn(memoryStorage)) :
                      CollectionIn(memoryStorage)[i] = resp.entry
              ELSE \E i \in 1..Len(CollectionIn(kv)) : CollectionIn(kv)[i] = resp.entry

\* C13 witness: a DELETE whose read and whose write both fell back to the
\* memory map was answered 200 while the remote store held the user's
\* entries from earlier calls
C13_Witness ==
    /\ resp.method = "DELETE" /\ resp.status = 200
    /\ resp.calls = <<"kv.get", "memory.get", "kv.set", "memory.set">>
    /\ Len(CollectionIn(kv)) > 0

-----------------------------------------------------------------------------
(* Properties of the atomicity of a request, checked under Spec.           *)

\* what a later list of the caller returns when the remote store answers it
LaterList == getUserEntries(resp.user, TRUE).entries

\* the collection holds an entry with the id
HoldsId(entries, id) == \E i \in 1..Len(entries) : StrictEq(JStr(entries[i].id), id)

\* the mutation of the last request, answered with success, shows in a
\* later list
MutationApplied ==
    /\ resp.method \in {"POST", "PUT"} =>
          \E i \in 1..Len(LaterList) : LaterList[i] = resp.entry
    /\ resp.method = "DELETE" => ~HoldsId(LaterList, resp.req.id)

\* C14: a request on /api/content answered with a status other than success
\* leaves the remote store and the memory map as they were, and a request
\* answered with success has applied its whole mutation to the store that
\* later reads consult
C14_AllOrNothing ==
    [][resp'.method \in ContentMethods =>
        /\ resp'.status # 200 => (kv' = kv /\ memoryStorage' = memoryStorage)
        /\ resp'.status = 200 => MutationApplied']_vars

-----------------------------------------------------------------------------
(* Properties of the login and verify routes, checked under SpecAuth.      *)

\* the directory users a username and a password match: the usernames
\* compared without regard to case, the passwords as they are
Matching(username, password) ==
    {i \in 1..Len(USERS) :
        /\ toLowerCase(USERS[i].username) = toLowerCase(username)
        /\ USERS[i].passwordHash = password}

\* the last response answers a login that carried a username and a password
LoggedInWith ==
    /\ resp.method = "LOGIN"
    /\ ~Falsy(resp.req.username) /\ ~Falsy(resp.req.password)

\* the last response is the success of a login as directory user i: token,
\* id, username, name and role, and the token verified at once gives the id
SuccessAs(i) ==
    /\ resp.status = 200
    /\ resp.user = JStr(USERS[i].id)
    /\ resp.profile = [username |-> JStr(USERS[i].username),
                       name |-> JStr(USERS[i].name), role |-> JStr(USERS[i].role)]
    /\ resp.token.t = "string"
    /\ Prop(verifySessionToken(resp.token.v, resp.at), K_userId) = JStr(USERS[i].id)

ValidToken ==
    /\ resp.req.token.t = "string" /\ Len(resp.req.token.v) > 0
    /\ DecodesToSession
    /\ Prop(DecodedRequestToken.val, K_expiresAt).v > resp.at

\* C16: verify has two outcomes: success with the user (id, username, name,
\* role) when the token is valid, and 401 in every other case, a body
\* without token and a token of a user outside the directory included
C16_VerifyTwoOutcomes ==
    resp.method \in {"VERIFY", "VERIFY_DIRECTORY"} =>
        /\ resp.status \in {200, 401}
        /\ resp.status = 200 =>
            /\ ValidToken
            /\ \E i \in 1..Len(USERS) :
                /\ resp.user = JStr(USERS[i].id)
                /\ resp.profile = [username |-> JStr(USERS[i].username),
                                   name |-> JStr(USERS[i].name),
                                   role |-> JStr(USERS[i].role)]
        /\ Falsy(resp.req.token) => resp.status = 401

-----------------------------------------------------------------------------
(* Properties of the number of attachments, checked under SpecFiles.       *)

\* C17: no stored note has more than 5 attachments: a POST or PUT carrying
\* more than 5 is answered 400 before a store is touched, and the form of a
\* browser never holds more than 5 files
C17_AtMostFiveAttachments ==
    /\ \A e \in StoredEntries : Len(e.attachments) <= 5
    /\ \A c \in Clients : Len(client[c].newEntry.attachments) <= 5
    /\ (/\ resp.method \in {"POST", "PUT"}
        /\ ~Falsy(resp.user)
        /\ resp.req.attachments.t = "array"
        /\ Len(resp.req.attachments.v) > 5) =>
            resp.status = 400 /\ resp.calls = <<>>


-----------------------------------------------------------------------------
(***************************************************************************)
(* The file-backed variants under concurrent requests (SpecDataFile).      *)
(***************************************************************************)

\* every request has been answered
Quiet == \A t \in Tasks : tasks[t].pc \in {"idle", "done"}

\* request t was a POST, PUT or DELETE answered with success
Mutated(t) ==
    /\ tasks[t].pc = "done"
    /\ tasks[t].status = 200
    /\ tasks[t].kind \in {"POST", "PUT", "DELETE"}

\* the entries of the data file
FileEntries == IF DataFile(disk).t = "doc" THEN DataFile(disk).entries ELSE <<>>

\* the ids that successful DELETE requests removed
DeletedIds == {tasks[t].entry.id : t \in {u \in Tasks : Mutated(u) /\ tasks[u].kind = "DELETE"}}

\* the data file shows what request t did: the created entry is there, the
\* edited entry has the texts of a successful PUT, the deleted entry is
\* gone; an entry that a successful DELETE removed need not be there
Reflected(t) ==
    LET id == tasks[t].entry.id
        at == {i \in 1..Len(FileEntries) : FileEntries[i].id = id}
    IN  CASE tasks[t].kind = "DELETE" -> at = {}
          [] tasks[t].kind = "POST" -> id \in DeletedIds \/ at # {}
          [] tasks[t].kind = "PUT" ->
                \/ id \in DeletedIds
                \/ \E i \in at : \E u \in Tasks :
                      /\ Mutated(u) /\ tasks[u].kind = "PUT" /\ tasks[u].entry.id = id
                      /\ FileEntries[i].title = tasks[u].entry.title
                      /\ FileEntries[i].content = tasks[u].entry.content

\* C18: in the file-backed variants no update is lost: once the POST, PUT
\* and DELETE requests that ran, concurrently or not, have all returned
\* success, the data file reflects the mutation of each of them
C18_NoLostUpdate ==
    (Quiet /\ \A t \in Tasks : tasks[t].pc = "done" => Mutated(t))
        => \A t \in Tasks : Mutated(t) => Reflected(t)

\* the collections that some request has written in full: the one of the
\* first state, the empty one of ensureDataFile, and those of the requests
\* past their write
FullyWritten ==
    {<<>>} \cup {IF disk.start = "seeded" THEN <<SeedEntry>> ELSE <<>>}
        \cup {tasks[t].data : t \in {u \in Tasks : tasks[u].pc \in {"rename", "cleanup", "done"}}}

\* C19: with writeDataSafely, whenever the data file exists it holds a
\* complete document, the collection some request wrote in full, and no read
\* of a request finds a document it cannot parse (the data directory of the
\* first state has no data file or a complete one)
C19_NoPartialDocument ==
    (disk.variant = "safe" /\ disk.start # "corrupt") =>
        /\ DataFile(disk).t \in {"free", "doc"}
        /\ DataFile(disk).t = "doc" => DataFile(disk).entries \in FullyWritten
        /\ \A t \in Tasks : tasks[t].saw # "corrupt"

\* request t was a GET whose read found no data file, or one it could not
\* parse, and it has been answered
AnsweredUnreadable(t) ==
    /\ tasks[t].kind = "GET"
    /\ tasks[t].pc = "done"
    /\ tasks[t].saw \in {"missing", "corrupt"}

\* C20: in both file-backed variants a GET whose read finds the data file
\* missing or unparseable is answered 200 with an empty entries list, and no
\* GET is answered 500
C20_UnreadableIsEmpty ==
    \A t \in Tasks :
        /\ (tasks[t].kind = "GET" /\ tasks[t].pc = "done") => tasks[t].status = 200
        /\ AnsweredUnreadable(t) => tasks[t].entries = <<>>

\* a GET has been answered with success after it found the data file of
\* the first state, which is no JSON
C20_Witness ==
    /\ disk.start = "corrupt"
    /\ \E t \in Tasks : /\ AnsweredUnreadable(t)
                         /\ tasks[t].saw = "corrupt"
                         /\ tasks[t].status = 200

-----------------------------------------------------------------------------
(* The durability of a note across the stores, checked under Spec.         *)

\* the list holds the entry with its id, title and content
Lists(entries, entry) ==
    \E i \in 1..Len(entries) :
        /\ entries[i].id = entry.id
        /\ entries[i].title = entry.title
        /\ entries[i].content = entry.content

\* C25: a note whose POST or PUT was answered with success is in the list
\* the owner's next request, a GET answered with success, returns, with the
\* title and content of that POST or PUT, whichever of the remote calls of
\* the two requests failed
C25_CreatedStaysListed ==
    [][((FollowsSuccess("POST") \/ FollowsSuccess("PUT"))
            /\ resp'.method = "GET" /\ resp'.status = 200) =>
        Lists(resp'.entries, resp.entry)]_vars

-----------------------------------------------------------------------------
(* The fields of a list response, checked under Spec.                      *)

\* the store the entries of the last response were read from
ReadFrom ==
    IF \E i \in 1..Len(resp.calls) : resp.calls[i] = "memory.get"
    THEN "memory" ELSE "vercel-kv"

\* C28: in a GET answered with success count is the number of entries
\* returned, isGlobal is true exactly when storage is "vercel-kv", and
\* storage names the store the entries were read from
C28_ListFieldsAgree ==
    (resp.method = "GET" /\ resp.status = 200) =>
        /\ resp.count = Len(resp.entries)
        /\ resp.isGlobal <=> resp.storage = "vercel-kv"
        /\ resp.storage = ReadFrom

-----------------------------------------------------------------------------
(* The order of a user's collection, checked under Spec.                   *)

\* no entry of the list was created before one that follows it
NewestFirst(entries) ==
    \A i \in 1..Len(entries) : \A j \in (i + 1)..Len(entries) :
        ~IsoBefore(entries[i].createdAt, entries[j].createdAt)

\* the collection of a user in a store
CollectionOf(store, userId) ==
    LET storageKey == getUserStorageKey(userId)
    IN  IF storageKey \in DOMAIN store THEN store[storageKey] ELSE <<>>

\* the step answers a POST, PUT or DELETE with success; the collection its
\* getUserEntries read and the collection its saveUserEntries wrote
Saves ==
    /\ <<kv, memoryStorage, resp>>' # <<kv, memoryStorage, resp>>
    /\ resp'.method \in {"POST", "PUT", "DELETE"} /\ resp'.status = 200
ListRead ==
    IF resp'.calls[2] = "memory.get" THEN CollectionOf(memoryStorage, resp'.user)
    ELSE OwnedBy(CollectionOf(kv, resp'.user), resp'.user)
ListWritten ==
    IF resp'.calls[Len(resp'.calls)] = "memory.set"
    THEN CollectionOf(memoryStorage', resp'.user)
    ELSE CollectionOf(kv', resp'.user)

\* the ids of a list, in its order
IdsOf(entries) == Listed([i \in 1..Len(entries) |-> entries[i].id])

-----------------------------------------------------------------------------
(* The attachments of an updated note, checked under SpecEdits.            *)

\* the index of the note the PUT of the step names, in the collection read
UpdatedIndex == FindIndex(ListRead, resp'.req.id, resp'.user)

\* C27: a successful update without an attachments argument writes the note
\* with the attachment list it had, one with an attachments argument (an
\* empty list included) writes the note with that list, and in both cases
\* every other note of the collection is written as it was read
C27_AttachmentsFrame ==
    [][(Saves /\ resp'.method = "PUT") =>
        /\ Len(ListWritten) = Len(ListRead)
        /\ UpdatedIndex > 0
        /\ ListWritten[UpdatedIndex] = resp'.entry
        /\ ListWritten[UpdatedIndex].attachments =
              IF resp'.req.attachments.t = "undefined"
              THEN ListRead[UpdatedIndex].attachments
              ELSE resp'.req.attachments.v
        /\ \A j \in 1..Len(ListRead) : j # UpdatedIndex => ListWritten[j] = ListRead[j]]_vars

\* C27 witness: an update without an attachments argument was answered with
\* success for a note with attachments, in a collection of two notes
C27_Witness ==
    /\ resp.method = "PUT" /\ resp.status = 200
    /\ resp.req.attachments.t = "undefined"
    /\ Len(resp.prior.attachments) > 0
    /\ resp.entry.attachments = resp.prior.attachments
    /\ Len(CollectionOf(kv, resp.user)) = 2 \/ Len(CollectionOf(memoryStorage, resp.user)) = 2

-----------------------------------------------------------------------------
(* The filter by userId in the storage adapter, checked under SpecForeign. *)

\* every entry of the list has the userId
AllOwnedBy(entries, userId) ==
    \A i \in 1..Len(entries) : StrictEq(entries[i].userId, userId)

\* C24: while the remote store holds another user's note under the caller's
\* key, every list getUserEntries returns to a request and every note the
\* request returns carry the caller's userId, every collection
\* saveUserEntries writes holds only the caller's notes, and the memory map
\* holds under a user's key only that user's notes
C24_ScopedByUserId ==
    /\ [](/\ (resp.method \in ContentMethods /\ resp.status = 200) =>
                /\ AllOwnedBy(resp.entries, resp.user)
                /\ resp.method \in {"POST", "PUT"} => StrictEq(resp.entry.userId, resp.user)
          /\ \A k \in DOMAIN memoryStorage : \A i \in 1..Len(memoryStorage[k]) :
                k = getUserStorageKey(memoryStorage[k][i].userId))
    /\ [][Saves => (AllOwnedBy(ListRead, resp'.user) /\ AllOwnedBy(ListWritten, resp'.user))]_vars

\* C24 witness: a GET was answered from the remote store with the caller's
\* note while the store held another user's note under the caller's key
C24_Witness ==
    /\ resp.method = "GET" /\ resp.status = 200
    /\ resp.calls[2] # "memory.get"
    /\ Len(resp.entries) > 0
    /\ ~AllOwnedBy(CollectionOf(kv, resp.user), resp.user)

-----------------------------------------------------------------------------
\* the calls that returned with success, by the adapter function called
Returned(op) ==
    {i \in Calls : pending[i].op = op /\ pending[i].pc = "done" /\ pending[i].found}

\* no call is between its start and its return
NoCallUnderWay == \A i \in Calls : pending[i].pc \in {"idle", "done"}

\* no remote call of any call made so far has thrown
RemoteAnswered == \A i \in Calls : ~pending[i].failed

\* C26: when creates of one user run concurrently through the storage
\* adapter, their reads and saves interleaved, and all return with
\* success, a following list of that user contains every created note.
\* Stated for the runs in which only creates were called and the remote
\* store answered every call: once all calls have returned, the list the
\* adapter reads for the user holds the entry each create returned
C26_ConcurrentCreatesKept ==
    (/\ NoCallUnderWay
     /\ RemoteAnswered
     /\ \A i \in Calls : pending[i].op \in {"none", "create"})
        => \A i \in Returned("create") :
               Lists(getUserEntries(pending[i].userId, TRUE).entries, pending[i].entry)

\* the copies of the note with the given id that a store holds for a user
Copies(store, userId, id) ==
    LET entries == CollectionOf(store, userId)
    IN  {entries[n] : n \in {m \in 1..Len(entries) : JStr(entries[m].id) = id}}

\* every call made so far is an update of one and the same note of one user,
\* at least two were made, and all have returned with success
OnlyUpdatesOfOneNote ==
    /\ NoCallUnderWay
    /\ Cardinality(Returned("update")) >= 2
    /\ \A i \in Calls : pending[i].op = "none" \/ i \in Returned("update")
    /\ \A i, j \in Returned("update") :
           pending[i].id = pending[j].id /\ pending[i].userId = pending[j].userId

\* the update whose saveUserEntries settled last
LastSaved == CHOOSE i \in Returned("update") :
                \A j \in Returned("update") : pending[j].savedAt <= pending[i].savedAt

-----------------------------------------------------------------------------
\* what the verify handler answers for the token of the last request when
\* verifySessionToken is called again, now, with that token and the clock of
\* that request
VerifiedAgain == VERIFY(resp.req, verifySessionToken(resp.req.token.v, resp.at))

-----------------------------------------------------------------------------
(* Properties of the page in the browser, checked under SpecPage.          *)

\* the page as handleLogout leaves it: no token, no user, no authToken item
\* in localStorage and no entries
LoggedOutPage(page) ==
    /\ page.authToken = Null
    /\ page.currentUser = Null
    /\ page.localStorage = Null
    /\ page.entries = <<>>

\* C29: once handleLogout has run, authToken and currentUser stay null,
\* localStorage holds no authToken and the entries stay empty until the next
\* handleLogin, also when an answer to a verifyToken or fetchEntries request
\* sent before the logout arrives after it: a step that is not a handleLogin
\* leaves a logged-out page logged out
C29_LogoutIsFinal ==
    [][\A c \in Clients :
          LoggedOutPage(client[c]) =>
              \/ LoggedOutPage(client'[c])
              \/ client'[c] = handleLogin(client[c], client'[c].localStorage)]_vars

\* C30: every request the logged-in page sends to /api/content carries its
\* session token, so that while the session is valid none of them is
\* answered 401
C30_RequestsCarryToken ==
    resp.method \in ContentMethods =>
        /\ ~Falsy(resp.req.token)
        /\ resp.status # 401

====
